---- MODULE Spec2Model ----
(***************************************************************************)
(* Warning lifecycle and geometry reconciliation of senamhi-tracker.       *)
(*                                                                         *)
(* Modelled values                                                         *)
(*   datetime      <<year, month, day, hour, minute, second>>, compared    *)
(*                 field by field from the year down, as Python does.      *)
(*   upstream date the text "DD/MM/YYYY HH:MM:SS" as the sequence of its   *)
(*                 numeric fields in textual order                         *)
(*                 <<DD, MM, YYYY, HH, MM, SS>>; a text strptime rejects   *)
(*                 is a sequence of another shape or with a field out of   *)
(*                 range.                                                  *)
(*   title         the sequence of the words of the text.                  *)
(*   table         the sequence of its rows in insertion order; the id of  *)
(*                 a row is its position (no row is deleted here).         *)
(***************************************************************************)
EXTENDS Integers, Sequences, FiniteSets, TLC

VARIABLES
    now,               \* datetime.now(): index of the current instant
    settings,          \* config.settings: the configured departments
    warnings_table,    \* table "warnings" (WarningAlert rows)
    fetched,           \* what the upstream gives to the scraper call under check
    scraped,           \* list returned by the last scrape call
    result,            \* dict returned by the last update_warnings call
    op,                \* the last operation and its arguments
    calls,             \* number of calls made so far
    supports_postgis,  \* settings.supports_postgis
    geometries_table,  \* table "warning_geometries" (WarningGeometry rows)
    geo_saved,         \* sequence of the save_warning_geometry calls made
    scrape_runs,       \* table "scrape_runs" (ScrapeRun rows)
    locations_table,   \* table "locations" (Location rows)
    forecasts_table,   \* table "forecasts" (Forecast rows)
    events,            \* what the last job run did, in the order it did it
    shapefile_cache    \* the files of ShapefileDownloader.download_dir

job_vars == <<scrape_runs, locations_table, forecasts_table, events,
              shapefile_cache>>

vars == <<now, settings, warnings_table, fetched, scraped, result, op,
          calls, supports_postgis, geometries_table, geo_saved, job_vars>>

\* no run recorded, no forecast stored, nothing downloaded
NoJobState ==
    /\ scrape_runs = <<>>
    /\ locations_table = <<>>
    /\ forecasts_table = <<>>
    /\ events = <<>>
    /\ shapefile_cache = {}

(***************************************************************************)
(* Bounds                                                                  *)
(***************************************************************************)
MaxTime == 2      \* instants 0..MaxTime, half a day apart
MaxAvisos == 2    \* raw records in one upstream response
MaxCalls == 2     \* calls in one behaviour of the storage specifications
MaxDays == 2      \* day numbers 1..MaxDays of a warning
MaxNivel == 2     \* hazard levels 1..MaxNivel of a polygon

\* Python's None (a record, so that it compares with Warning and row records)
None == [is_none |-> TRUE]

(***************************************************************************)
(* Sequence helpers                                                        *)
(***************************************************************************)
Range(s) == {s[i] : i \in 1..Len(s)}

\* the element of a set of one element
Only(S) == CHOOSE x \in S : TRUE

SeqsUpTo(S, n) == UNION {[1..k -> S] : k \in 0..n}

RECURSIVE FilterNone(_)
FilterNone(s) ==
    IF s = <<>> THEN <<>>
    ELSE IF Head(s) = None THEN FilterNone(Tail(s))
         ELSE <<Head(s)>> \o FilterNone(Tail(s))

(***************************************************************************)
(* datetime                                                                *)
(***************************************************************************)
\* a < b on datetimes (tuples year..second)
RECURSIVE TupleLess(_, _)
TupleLess(a, b) ==
    IF a = <<>> \/ b = <<>> THEN FALSE
    ELSE IF Head(a) # Head(b) THEN Head(a) < Head(b)
         ELSE TupleLess(Tail(a), Tail(b))

DtLE(a, b) == a = b \/ TupleLess(a, b)

DtLT(a, b) == TupleLess(a, b)

IsLeap(y) == (y % 4 = 0 /\ y % 100 # 0) \/ y % 400 = 0

DaysInMonth(y, m) ==
    IF m = 2 THEN (IF IsLeap(y) THEN 29 ELSE 28)
    ELSE IF m \in {4, 6, 9, 11} THEN 30 ELSE 31

\* The instant k half-days after 30/11/2025 12:00:00 (the instants straddle
\* a month end, so that day-first and year-first orders differ).
Instant(k) ==
    LET h == k + 1
        off == h \div 2
    IN  IF off = 0 THEN <<2025, 11, 30, 12 * (h % 2), 0, 0>>
        ELSE <<2025, 12, off, 12 * (h % 2), 0, 0>>

Times == 0..MaxTime

Instants == {Instant(k) : k \in Times}

\* What the upstream writes for a datetime: "DD/MM/YYYY HH:MM:SS".
SenamhiText(dt) == <<dt[3], dt[2], dt[1], dt[4], dt[5], dt[6]>>

(***************************************************************************)
(* Upstream payload (Avisos records) and settings                           *)
(***************************************************************************)
\* WarningScraper.DEPARTMENT_IDS, restricted to two of its 25 entries
\* (in the order of the dict).
DEPARTMENT_IDS == <<"CUSCO", "LIMA">>

Departments == Range(DEPARTMENT_IDS)

\* str.upper() and str.lower() on the names and words used here
Upper(sv) ==
    CASE sv = "lima" -> "LIMA"
      [] sv = "cusco" -> "CUSCO"
      [] sv = "amarillo" -> "AMARILLO"
      [] sv = "Rojo" -> "ROJO"
      [] OTHER -> sv

Lower(sv) ==
    CASE sv = "Incendios" -> "incendios"
      [] sv = "Forestales" -> "forestales"
      [] sv = "Lluvia" -> "lluvia"
      [] sv = "Aviso" -> "aviso"
      [] OTHER -> sv

\* settings.departments as configured (comma-separated entries), with
\* settings.scrape_all_departments
Settings ==
    { [scrape_all_departments |-> TRUE, departments |-> <<"LIMA">>],
      [scrape_all_departments |-> FALSE, departments |-> <<"LIMA", "cusco">>] }

WarningNumbers == {"418", "419"}

MalformedText == <<31, 11, 2025, 0, 0, 0>>     \* "31/11/2025 00:00:00"

DateTexts == {SenamhiText(dt) : dt \in Instants} \cup {MalformedText}

Variants == {1, 2}

\* One raw record of the "Avisos" array.  The variant fixes the fields no
\* claim varies on their own (id, titulo, descripcion, fechaEmision, nivel,
\* colorNivel).
Aviso(n, v, fi, ff) ==
    [ id |-> 1000 + v,
      numero |-> n,
      titulo |-> IF v = 1 THEN <<"Aviso", "de", "Lluvia">>
                 ELSE <<"Lluvia", "intensa">>,
      descripcion |-> IF v = 1 THEN "d1" ELSE "d2",
      fechaEmision |-> SenamhiText(Instant(IF v = 1 THEN 0 ELSE 1)),
      fechaInicio |-> fi,
      fechaFin |-> ff,
      nivel |-> IF v = 1 THEN "2" ELSE "3",
      colorNivel |-> IF v = 1 THEN "amarillo" ELSE "" ]

\* a forest-fire advisory (Scenario D) and a record whose emission date is
\* malformed
FireAviso(n) ==
    [Aviso(n, 1, SenamhiText(Instant(0)), SenamhiText(Instant(MaxTime)))
        EXCEPT !.titulo = <<"Aviso", "de", "Incendios", "Forestales">>]

BadEmisionAviso(n) ==
    [Aviso(n, 1, SenamhiText(Instant(0)), SenamhiText(Instant(MaxTime)))
        EXCEPT !.fechaEmision = <<>>]

RawRecords ==
    {Aviso(n, v, fi, ff) :
        n \in WarningNumbers, v \in Variants, fi \in DateTexts, ff \in DateTexts}
    \cup {FireAviso("418"), BadEmisionAviso("418")}

\* What one HTTP GET + response.json() gives: an exception (transport error,
\* timeout, non-2xx, bad JSON), a payload without "Avisos", or a payload
\* with the array.
FetchError == [kind |-> "error", has_avisos |-> FALSE, Avisos |-> <<>>]

NoAvisos == [kind |-> "json", has_avisos |-> FALSE, Avisos |-> <<>>]

Payload(avisos) == [kind |-> "json", has_avisos |-> TRUE, Avisos |-> avisos]

(***************************************************************************)
(* WarningScraper                                                          *)
(***************************************************************************)
\* the ValueError strptime raises (a sequence, so that it compares with a
\* datetime)
ValueError == <<"ValueError">>

\* datetime.strptime(date_str, "%d/%m/%Y %H:%M:%S")
_parse_senamhi_datetime(date_str) ==
    IF /\ Len(date_str) = 6
       /\ date_str[2] \in 1..12
       /\ date_str[3] \in 1..9999
       /\ date_str[1] \in 1..DaysInMonth(date_str[3], date_str[2])
       /\ date_str[4] \in 0..23
       /\ date_str[5] \in 0..59
       /\ date_str[6] \in 0..59
    THEN <<date_str[3], date_str[2], date_str[1],
           date_str[4], date_str[5], date_str[6]>>
    ELSE ValueError

_map_severity(nivel, color) ==
    LET color_upper == Upper(color)
    IN  CASE color_upper = "VERDE" -> "verde"
          [] color_upper = "AMARILLO" -> "amarillo"
          [] color_upper = "NARANJA" -> "naranja"
          [] color_upper = "ROJO" -> "rojo"
          [] OTHER ->
                CASE nivel = "1" -> "verde"
                  [] nivel = "2" -> "amarillo"
                  [] nivel = "3" -> "naranja"
                  [] nivel = "4" -> "rojo"
                  [] OTHER -> "amarillo"

\* "incendios forestales" in titulo.lower()
IsForestFire(titulo) ==
    \E i \in 1..(Len(titulo) - 1) :
        Lower(titulo[i]) = "incendios" /\ Lower(titulo[i + 1]) = "forestales"

\* the status derivation with strict comparisons
DeriveStatus_strict(valid_from, valid_until, t) ==
    IF DtLT(valid_from, t) /\ DtLT(t, valid_until) THEN "vigente"
    ELSE IF DtLT(t, valid_from) THEN "emitido"
         ELSE "vencido"

\* the status computed from the validity window, at time t
DeriveStatus(valid_from, valid_until, t) ==
    IF DtLE(valid_from, t) /\ DtLE(t, valid_until) THEN "vigente"
    ELSE IF DtLT(t, valid_from) THEN "emitido"
         ELSE "vencido"

\* _parse_warning without the drop of expired records
_parse_warning_keep_vencido(aviso_data, department, t) ==
    IF IsForestFire(aviso_data.titulo) THEN None
    ELSE
      LET issued_at == _parse_senamhi_datetime(aviso_data.fechaEmision)
          valid_from == _parse_senamhi_datetime(aviso_data.fechaInicio)
          valid_until == _parse_senamhi_datetime(aviso_data.fechaFin)
      IN  IF ValueError \in {issued_at, valid_from, valid_until} THEN None
          ELSE [ senamhi_id |-> aviso_data.id,
                 warning_number |-> aviso_data.numero,
                 department |-> department,
                 severity |-> _map_severity(aviso_data.nivel, aviso_data.colorNivel),
                 status |-> DeriveStatus(valid_from, valid_until, t),
                 title |-> aviso_data.titulo,
                 description |-> aviso_data.descripcion,
                 valid_from |-> valid_from,
                 valid_until |-> valid_until,
                 issued_at |-> issued_at,
                 scraped_at |-> t ]

\* WarningScraper._parse_warning at time t: a Warning, or None (also when
\* an exception is caught)
_parse_warning(aviso_data, department, t) ==
    IF IsForestFire(aviso_data.titulo) THEN None
    ELSE
      LET issued_at == _parse_senamhi_datetime(aviso_data.fechaEmision)
          valid_from == _parse_senamhi_datetime(aviso_data.fechaInicio)
          valid_until == _parse_senamhi_datetime(aviso_data.fechaFin)
      IN  IF ValueError \in {issued_at, valid_from, valid_until} THEN None
          ELSE
            LET severity == _map_severity(aviso_data.nivel, aviso_data.colorNivel)
                status == DeriveStatus(valid_from, valid_until, t)
            IN  IF status = "vencido" THEN None
                ELSE [ senamhi_id |-> aviso_data.id,
                       warning_number |-> aviso_data.numero,
                       department |-> department,
                       severity |-> severity,
                       status |-> status,
                       title |-> aviso_data.titulo,
                       description |-> aviso_data.descripcion,
                       valid_from |-> valid_from,
                       valid_until |-> valid_until,
                       issued_at |-> issued_at,
                       scraped_at |-> t ]

\* scrape_warnings_for_department where a record that fails to parse ends
\* the batch (the exception reaches the handler of the request)
scrape_warnings_for_department_abort(department, response, t) ==
    LET dept_upper == Upper(department)
    IN  IF dept_upper \notin Departments THEN <<>>
        ELSE IF response.kind = "error" THEN <<>>
        ELSE IF ~response.has_avisos THEN <<>>
        ELSE IF \E i \in 1..Len(response.Avisos) :
                    ValueError \in
                        { _parse_senamhi_datetime(response.Avisos[i].fechaEmision),
                          _parse_senamhi_datetime(response.Avisos[i].fechaInicio),
                          _parse_senamhi_datetime(response.Avisos[i].fechaFin) }
             THEN <<>>
             ELSE FilterNone([i \in 1..Len(response.Avisos) |->
                                _parse_warning(response.Avisos[i], dept_upper, t)])

\* WarningScraper.scrape_warnings_for_department, given what the GET gives
scrape_warnings_for_department(department, response, t) ==
    LET dept_upper == Upper(department)
    IN  IF dept_upper \notin Departments THEN <<>>
        ELSE IF response.kind = "error" THEN <<>>
        ELSE IF ~response.has_avisos THEN <<>>
        ELSE FilterNone([i \in 1..Len(response.Avisos) |->
                            _parse_warning(response.Avisos[i], dept_upper, t)])

\* list.sort(key=issued_at, reverse=True): stable, most recent first
RECURSIVE InsertByIssued(_, _)
InsertByIssued(w, sorted) ==
    IF sorted = <<>> THEN <<w>>
    ELSE IF DtLT(Head(sorted).issued_at, w.issued_at) THEN <<w>> \o sorted
         ELSE <<Head(sorted)>> \o InsertByIssued(w, Tail(sorted))

\* scrape_warnings without the final sort
SortByIssued_keep_order(ws) == ws

RECURSIVE SortByIssuedDesc(_)
SortByIssuedDesc(ws) ==
    IF ws = <<>> THEN <<>>
    ELSE InsertByIssued(ws[Len(ws)], SortByIssuedDesc(SubSeq(ws, 1, Len(ws) - 1)))

\* settings.get_departments_list()
get_departments_list(cfg) ==
    IF cfg.scrape_all_departments THEN <<>>
    ELSE [i \in 1..Len(cfg.departments) |-> Upper(cfg.departments[i])]

\* the departments scrape_warnings() visits when called without argument
RequestedDepartments(cfg) ==
    IF get_departments_list(cfg) = <<>> \/ cfg.scrape_all_departments
    THEN DEPARTMENT_IDS
    ELSE get_departments_list(cfg)

\* the loop without the seen_combinations test
AddAll(all_warnings, dept_warnings) == all_warnings \o dept_warnings

\* the dedup loop of scrape_warnings: all_warnings after adding the
\* warnings of one department
RECURSIVE AddDedup(_, _)
AddDedup(all_warnings, dept_warnings) ==
    IF dept_warnings = <<>> THEN all_warnings
    ELSE LET warning == Head(dept_warnings)
             seen_combinations ==
                {<<w.warning_number, w.department>> : w \in Range(all_warnings)}
         IN  IF <<warning.warning_number, warning.department>> \notin seen_combinations
             THEN AddDedup(Append(all_warnings, warning), Tail(dept_warnings))
             ELSE AddDedup(all_warnings, Tail(dept_warnings))

\* the loop over the departments 1..k, responses[i] being what the i-th
\* request gives
RECURSIVE CollectWarnings(_, _, _, _)
CollectWarnings(depts, responses, t, k) ==
    IF k = 0 THEN <<>>
    ELSE AddDedup(CollectWarnings(depts, responses, t, k - 1),
                  scrape_warnings_for_department(depts[k], responses[k], t))

\* scrape_warnings where a failed request ends the pass
scrape_warnings_abort(depts, responses, t) ==
    IF \E k \in 1..Len(depts) : responses[k].kind = "error" THEN <<>>
    ELSE SortByIssuedDesc(CollectWarnings(depts, responses, t, Len(depts)))

\* WarningScraper.scrape_warnings
scrape_warnings(depts, responses, t) ==
    SortByIssuedDesc(CollectWarnings(depts, responses, t, Len(depts)))

(***************************************************************************)
(* storage.crud and WeatherService.update_warnings                         *)
(***************************************************************************)
\* the index of the first row satisfying Match, 0 when there is none
\* (query.filter(...).first())
FirstIndex(table, Match(_)) ==
    IF \E i \in 1..Len(table) : Match(table[i])
    THEN CHOOSE i \in 1..Len(table) :
            Match(table[i]) /\ \A j \in 1..(i - 1) : ~Match(table[j])
    ELSE 0

\* crud.get_warning_by_number: the row found, or None
get_warning_by_number(table, warning_number, department) ==
    LET Match(row) ==
            /\ row.warning_number = warning_number
            /\ (department # "" => row.department = Upper(department))
        i == FirstIndex(table, Match)
    IN  IF i = 0 THEN None ELSE table[i]

\* the WarningAlert row save_warning writes for a Warning, under id
WarningAlert(id, warning) ==
    [ id |-> id,
      senamhi_id |-> warning.senamhi_id,
      warning_number |-> warning.warning_number,
      department |-> warning.department,
      severity |-> warning.severity,
      status |-> warning.status,
      title |-> warning.title,
      description |-> warning.description,
      valid_from |-> warning.valid_from,
      valid_until |-> warning.valid_until,
      issued_at |-> warning.issued_at,
      scraped_at |-> warning.scraped_at ]

\* save_warning without the lookup of an existing row
save_warning_always_insert(table, warning) ==
    Append(table, WarningAlert(Len(table) + 1, warning))

\* save_warning looking the existing row up by warning_number alone
save_warning_by_number(table, warning) ==
    LET Match(row) == row.warning_number = warning.warning_number
        i == FirstIndex(table, Match)
    IN  IF i # 0
        THEN [table EXCEPT ![i] =
                WarningAlert(@.id, [warning EXCEPT !.department = table[i].department])]
        ELSE Append(table, WarningAlert(Len(table) + 1, warning))

\* save_warning leaving the description of an existing row as it was
save_warning_keep_description(table, warning) ==
    LET Match(row) ==
            /\ row.warning_number = warning.warning_number
            /\ row.department = warning.department
        i == FirstIndex(table, Match)
    IN  IF i # 0
        THEN [table EXCEPT ![i] =
                [WarningAlert(@.id, warning) EXCEPT !.description = table[i].description]]
        ELSE Append(table, WarningAlert(Len(table) + 1, warning))

\* crud.save_warning: the table after the call
save_warning(table, warning) ==
    LET Match(row) ==
            /\ row.warning_number = warning.warning_number
            /\ row.department = warning.department
        i == FirstIndex(table, Match)
    IN  IF i # 0
        THEN [table EXCEPT ![i] =
                [ id |-> @.id,
                  senamhi_id |-> warning.senamhi_id,
                  warning_number |-> @.warning_number,
                  department |-> @.department,
                  severity |-> warning.severity,
                  status |-> warning.status,
                  title |-> warning.title,
                  description |-> warning.description,
                  valid_from |-> warning.valid_from,
                  valid_until |-> warning.valid_until,
                  issued_at |-> warning.issued_at,
                  scraped_at |-> warning.scraped_at ]]
        ELSE Append(table, WarningAlert(Len(table) + 1, warning))

\* the loop of WeatherService.update_warnings over warnings[1..k]: the table
\* and the two counters after it
RECURSIVE SaveLoop(_, _, _, _)
SaveLoop(table, warnings, force, k) ==
    IF k = 0 THEN [table |-> table, saved |-> 0, updated |-> 0]
    ELSE LET before == SaveLoop(table, warnings, force, k - 1)
             warning == warnings[k]
             existing == get_warning_by_number(before.table,
                            warning.warning_number, warning.department)
         IN  IF existing # None /\ ~force THEN before
             ELSE [ table |-> save_warning(before.table, warning),
                    saved |-> before.saved + (IF existing = None THEN 1 ELSE 0),
                    updated |-> before.updated + (IF existing # None THEN 1 ELSE 0) ]

\* update_warnings that never skips a stored warning
update_warnings_no_skip(table, warnings, force) ==
    IF warnings = <<>>
    THEN [ table |-> table,
           result |-> [success |-> TRUE, found |-> 0, saved |-> 0, updated |-> 0] ]
    ELSE LET after == SaveLoop(table, warnings, TRUE, Len(warnings))
         IN  [ table |-> after.table,
               result |-> [ success |-> TRUE, found |-> Len(warnings),
                            saved |-> after.saved, updated |-> after.updated ] ]

\* WeatherService.update_warnings, given the list scrape_warnings() returned
update_warnings(table, warnings, force) ==
    IF warnings = <<>>
    THEN [ table |-> table,
           result |-> [success |-> TRUE, found |-> 0, saved |-> 0, updated |-> 0] ]
    ELSE LET after == SaveLoop(table, warnings, force, Len(warnings))
         IN  [ table |-> after.table,
               result |-> [ success |-> TRUE, found |-> Len(warnings),
                            saved |-> after.saved, updated |-> after.updated ] ]

(***************************************************************************)
(* Inputs of the operations                                                *)
(***************************************************************************)
TextOf(k) == SenamhiText(Instant(k))

\* records of the responses given to scrape_warnings_for_department
BatchRecords ==
    {Aviso("418", v, fi, ff) :
        v \in Variants,
        fi \in {TextOf(0), MalformedText},
        ff \in {TextOf(0), TextOf(MaxTime)}}
    \cup {FireAviso("418"), BadEmisionAviso("418")}

\* records of the responses given to a scrape pass
PassRecords ==
    { Aviso("418", 1, TextOf(1), TextOf(MaxTime)),
      Aviso("418", 2, TextOf(0), TextOf(MaxTime)),
      Aviso("419", 1, TextOf(0), TextOf(0)),
      Aviso("419", 2, MalformedText, TextOf(MaxTime)) }

\* records of the responses given to update_warnings
StoreRecords ==
    { Aviso("418", 1, TextOf(1), TextOf(MaxTime)),
      Aviso("418", 2, TextOf(0), TextOf(MaxTime)),
      Aviso("419", 1, TextOf(0), TextOf(0)) }

\* what a request of update_warnings gives: a failure or one record
StoreResponses == {FetchError} \cup {Payload(<<a>>) : a \in StoreRecords}

ResponsesOf(records, n) ==
    {FetchError, NoAvisos} \cup {Payload(a) : a \in SeqsUpTo(records, n)}

\* department arguments of scrape_warnings_for_department
DepartmentArgs == Departments \cup {"cusco", "TOKIO"}

\* Warning values handed to save_warning directly (CLI, tests)
SaveInputs ==
    { [ senamhi_id |-> 1000 + v,
        warning_number |-> n,
        department |-> d,
        severity |-> IF v = 1 THEN "amarillo" ELSE "rojo",
        status |-> IF v = 1 THEN "vigente" ELSE "vencido",
        title |-> IF v = 1 THEN <<"Test", "Warning">> ELSE <<"Aviso", "actualizado">>,
        description |-> IF v = 1 THEN "Test" ELSE "Test description",
        valid_from |-> Instant(0),
        valid_until |-> Instant(v),
        issued_at |-> Instant(0),
        scraped_at |-> Instant(0) ] :
        n \in {"418"}, d \in Departments, v \in Variants }

(***************************************************************************)
(* State machine: storage of warnings                                      *)
(***************************************************************************)
Init ==
    /\ now = 0
    /\ settings \in Settings
    /\ warnings_table = <<>>
    /\ fetched = <<>>
    /\ scraped = <<>>
    /\ result = None
    /\ op = [name |-> "init"]
    /\ calls = 0
    /\ supports_postgis = FALSE
    /\ geometries_table = <<>>
    /\ geo_saved = <<>>
    /\ NoJobState

\* time passes
Tick ==
    /\ now < MaxTime
    /\ now' = now + 1
    /\ UNCHANGED <<settings, warnings_table, fetched, scraped, result, op,
                   calls, supports_postgis, geometries_table, geo_saved, job_vars>>

\* one call of WeatherService.update_warnings(force): scrape_warnings_cmd
\* (any force), run_warnings_scrape_job (force=False)
UpdateWarnings ==
    LET depts == RequestedDepartments(settings)
    IN  /\ calls < MaxCalls
        /\ \E force \in BOOLEAN,
              responses \in [1..Len(depts) -> StoreResponses] :
                LET warnings == scrape_warnings(depts, responses, Instant(now))
                    after == update_warnings(warnings_table, warnings, force)
                IN  /\ op' = [name |-> "update_warnings", force |-> force]
                    /\ fetched' = responses
                    /\ scraped' = warnings
                    /\ warnings_table' = after.table
                    /\ result' = after.result
        /\ calls' = calls + 1
        /\ UNCHANGED <<now, settings, supports_postgis, geometries_table,
                       geo_saved, job_vars>>

\* one direct call of crud.save_warning
SaveWarning ==
    /\ calls < MaxCalls
    /\ \E warning \in SaveInputs :
            /\ op' = [name |-> "save_warning", warning |-> warning]
            /\ warnings_table' = save_warning(warnings_table, warning)
    /\ calls' = calls + 1
    /\ UNCHANGED <<now, settings, fetched, scraped, result, supports_postgis,
                   geometries_table, geo_saved, job_vars>>

Next == Tick \/ UpdateWarnings \/ SaveWarning

Spec == Init /\ [][Next]_vars

(***************************************************************************)
(* State machine: the scraper's functions applied to drawn inputs          *)
(***************************************************************************)
\* a call of _parse_warning or of scrape_warnings_for_department is pending
InitParse ==
    /\ now \in Times
    /\ settings \in Settings
    /\ warnings_table = <<>>
    /\ \/ /\ fetched \in RawRecords
          /\ op \in {[name |-> "call", fn |-> "_parse_warning", department |-> d] :
                        d \in Departments}
       \/ /\ fetched \in ResponsesOf(BatchRecords, MaxAvisos)
          /\ op \in {[name |-> "call", fn |-> "scrape_warnings_for_department",
                      department |-> d] : d \in DepartmentArgs}
    /\ scraped = <<>>
    /\ result = None
    /\ calls = 0
    /\ supports_postgis = FALSE
    /\ geometries_table = <<>>
    /\ geo_saved = <<>>
    /\ NoJobState

\* the value of the local variable status of _parse_warning, when set
LocalStatus(aviso_data, t) ==
    LET valid_from == _parse_senamhi_datetime(aviso_data.fechaInicio)
        valid_until == _parse_senamhi_datetime(aviso_data.fechaFin)
    IN  IF \/ IsForestFire(aviso_data.titulo)
           \/ _parse_senamhi_datetime(aviso_data.fechaEmision) = ValueError
           \/ valid_from = ValueError
           \/ valid_until = ValueError
        THEN "unset"
        ELSE DeriveStatus(valid_from, valid_until, t)

\* the pending call of WarningScraper._parse_warning
ParseWarning ==
    /\ op.name = "call" /\ op.fn = "_parse_warning"
    /\ op' = [ name |-> "_parse_warning", department |-> op.department,
               status |-> LocalStatus(fetched, Instant(now)) ]
    /\ scraped' = FilterNone(<<_parse_warning(fetched, op.department, Instant(now))>>)
    /\ UNCHANGED <<now, settings, warnings_table, fetched, result, calls,
                   supports_postgis, geometries_table, geo_saved, job_vars>>

\* the pending call of WarningScraper.scrape_warnings_for_department
ScrapeDepartment ==
    /\ op.name = "call" /\ op.fn = "scrape_warnings_for_department"
    /\ op' = [name |-> "scrape_warnings_for_department", department |-> op.department]
    /\ scraped' = scrape_warnings_for_department(op.department, fetched, Instant(now))
    /\ UNCHANGED <<now, settings, warnings_table, fetched, result, calls,
                   supports_postgis, geometries_table, geo_saved, job_vars>>

NextParse == ParseWarning \/ ScrapeDepartment

SpecParse == InitParse /\ [][NextParse]_vars

\* a call of scrape_warnings() is pending, with what each request will give
InitScrape ==
    /\ now \in Times
    /\ settings \in Settings
    /\ warnings_table = <<>>
    /\ fetched \in [1..Len(RequestedDepartments(settings)) ->
                        ResponsesOf(PassRecords, MaxAvisos)]
    /\ op = [name |-> "call", fn |-> "scrape_warnings"]
    /\ scraped = <<>>
    /\ result = None
    /\ calls = 0
    /\ supports_postgis = FALSE
    /\ geometries_table = <<>>
    /\ geo_saved = <<>>
    /\ NoJobState

\* the pending call of WarningScraper.scrape_warnings()
ScrapeWarnings ==
    /\ op.name = "call" /\ op.fn = "scrape_warnings"
    /\ op' = [name |-> "scrape_warnings"]
    /\ scraped' = scrape_warnings(RequestedDepartments(settings), fetched, Instant(now))
    /\ UNCHANGED <<now, settings, warnings_table, fetched, result, calls,
                   supports_postgis, geometries_table, geo_saved, job_vars>>

NextScrape == ScrapeWarnings

SpecScrape == InitScrape /\ [][NextScrape]_vars

(***************************************************************************)
(* storage.geo_crud                                                        *)
(***************************************************************************)
\* the attributes the ORM class WarningGeometry maps
WarningGeometryAttributes ==
    {"id", "warning_id", "day_number", "shapefile_url", "shapefile_path",
     "downloaded_at", "geometry", "created_at", "updated_at", "warning"}

\* WKTElement(geometry.wkt, srid=4326)
WKTElement(geometry) == [data |-> geometry, srid |-> 4326]

\* geo_crud.save_warning_geometry at time t: the table after the call, what
\* is returned and the exception raised ("" when none).  The query reads
\* the class attributes WarningGeometry.warning_number, .day_number and
\* .nivel; reading an attribute the class does not have raises
\* AttributeError.
save_warning_geometry(table, postgis, warning_id, warning_number, day_number, geometry, nivel, shapefile_url, shapefile_path, t) ==
    IF ~postgis THEN [table |-> table, returned |-> None, raised |-> ""]
    ELSE IF ~({"warning_number", "day_number", "nivel"} \subseteq WarningGeometryAttributes)
    THEN [table |-> table, returned |-> None, raised |-> "AttributeError"]
    ELSE
      LET wkt_geom == WKTElement(geometry)
          Match(row) ==
            /\ row.warning_number = warning_number
            /\ row.day_number = day_number
            /\ row.nivel = nivel
          i == FirstIndex(table, Match)
          updated == [table EXCEPT ![i] =
                        [@ EXCEPT !.geometry = wkt_geom,
                                  !.shapefile_url = shapefile_url,
                                  !.shapefile_path = shapefile_path,
                                  !.downloaded_at = t,
                                  !.updated_at = t]]
          geom_record == [ id |-> Len(table) + 1,
                           warning_id |-> warning_id,
                           warning_number |-> warning_number,
                           day_number |-> day_number,
                           nivel |-> nivel,
                           geometry |-> wkt_geom,
                           shapefile_url |-> shapefile_url,
                           shapefile_path |-> shapefile_path,
                           downloaded_at |-> t,
                           updated_at |-> t ]
      IN  IF i # 0
          THEN [table |-> updated, returned |-> updated[i], raised |-> ""]
          ELSE [table |-> Append(table, geom_record), returned |-> geom_record,
                raised |-> ""]

(***************************************************************************)
(* State machine: storage of geometries                                    *)
(***************************************************************************)
Geometries == {"MULTIPOLYGON A", "MULTIPOLYGON B"}

InitGeo ==
    /\ now = 0
    /\ settings \in Settings
    /\ warnings_table = <<>>
    /\ fetched = <<>>
    /\ scraped = <<>>
    /\ result = None
    /\ op = [name |-> "init"]
    /\ calls = 0
    /\ supports_postgis \in BOOLEAN
    /\ geometries_table = <<>>
    /\ geo_saved = <<>>
    /\ NoJobState

\* one call of geo_crud.save_warning_geometry
SaveWarningGeometry ==
    /\ calls < MaxCalls
    /\ \E warning_number \in WarningNumbers, day_number \in 1..MaxDays,
          nivel \in 1..MaxNivel, geometry \in Geometries :
            LET after == save_warning_geometry(geometries_table, supports_postgis,
                            1, warning_number, day_number, geometry, nivel,
                            "url", "path", Instant(now))
            IN  /\ geometries_table' = after.table
                /\ op' = [ name |-> "save_warning_geometry",
                           returned |-> after.returned, raised |-> after.raised ]
                /\ geo_saved' = Append(geo_saved,
                        [ warning_number |-> warning_number,
                          day_number |-> day_number, nivel |-> nivel,
                          geometry |-> geometry ])
    /\ calls' = calls + 1
    /\ UNCHANGED <<now, settings, warnings_table, fetched, scraped, result,
                   supports_postgis, job_vars>>

NextGeo == Tick \/ SaveWarningGeometry

SpecGeo == InitGeo /\ [][NextGeo]_vars

(***************************************************************************)
(* Properties: reconciliation of stored warnings                           *)
(***************************************************************************)
KeyOf(w) == <<w.warning_number, w.department>>

StoredKeys(table) == {KeyOf(table[i]) : i \in 1..Len(table)}

CallStep == calls' = calls + 1

\* the Warning values the call of this step hands to the store
Handed ==
    IF op'.name = "save_warning" THEN {op'.warning}
    ELSE IF op'.name = "update_warnings" THEN Range(scraped')
    ELSE {}

\* C1: whatever save_warning and update_warnings calls are made, no two
\* stored warning rows have the same (warning_number, department), and a
\* call adds exactly one row per handed key that was not stored: handing a
\* Warning whose key is stored never adds a row.
C1_IdentityUniqueness ==
    [][ CallStep =>
          /\ \A i, j \in 1..Len(warnings_table') :
                KeyOf(warnings_table'[i]) = KeyOf(warnings_table'[j]) => i = j
          /\ Len(warnings_table') = Len(warnings_table)
                + Cardinality({KeyOf(w) : w \in Handed} \ StoredKeys(warnings_table))
      ]_vars

\* a pass inserted one row and a later save_warning for the same key left
\* the table with that one row
C1_Witness ==
    /\ op.name = "save_warning"
    /\ result # None
    /\ result.saved = 1
    /\ Len(warnings_table) = 1
    /\ KeyOf(warnings_table[1]) = KeyOf(op.warning)

\* C2: the same warning_number handed for two departments is stored as two
\* rows, and a call leaves every stored row whose key it was not handed
\* exactly as it was, the row of the same warning_number in another
\* department included.
C2_DepartmentIndependence ==
    [][ CallStep =>
          /\ \A i \in 1..Len(warnings_table) :
                KeyOf(warnings_table[i]) \notin {KeyOf(w) : w \in Handed}
                    => warnings_table'[i] = warnings_table[i]
          /\ \A w \in Handed :
                \E i \in 1..Len(warnings_table') :
                    KeyOf(warnings_table'[i]) = KeyOf(w)
      ]_vars

\* a pass stored one warning_number for both departments, and the save that
\* followed changed the row of one of them only
C2_Witness ==
    /\ op.name = "save_warning"
    /\ result # None
    /\ result.saved = 2
    /\ Len(warnings_table) = 2
    /\ warnings_table[1].warning_number = warnings_table[2].warning_number
    /\ warnings_table[1].department # warnings_table[2].department
    /\ \E i \in 1..2 :
        /\ KeyOf(warnings_table[i]) = KeyOf(op.warning)
        /\ warnings_table[i].title = op.warning.title
        /\ warnings_table[3 - i].title # op.warning.title

\* C3: update_warnings(force=False) leaves every stored row as it was, the
\* rows of the scraped keys included, reports updated = 0 and counts as
\* saved only the scraped warnings whose key was not stored.
C3_NoForceSkips ==
    [][ (CallStep /\ op'.name = "update_warnings" /\ ~op'.force) =>
          /\ \A i \in 1..Len(warnings_table) :
                warnings_table'[i] = warnings_table[i]
          /\ result'.updated = 0
          /\ result'.saved =
                Cardinality({KeyOf(w) : w \in Range(scraped')}
                                \ StoredKeys(warnings_table))
      ]_vars

\* an unforced pass scraped a stored key with another title: the row kept
\* its title and the result counts nothing for it
C3_Witness ==
    /\ op.name = "update_warnings"
    /\ ~op.force
    /\ result.updated = 0
    /\ result.saved = 0
    /\ \E w \in Range(scraped) :
        \E i \in 1..Len(warnings_table) :
            /\ KeyOf(warnings_table[i]) = KeyOf(w)
            /\ warnings_table[i].title # w.title

\* C4: update_warnings(force=True) gives the stored row of every scraped
\* key the scraped severity, status, title, description, valid_from,
\* valid_until, issued_at and scraped_at, and leaves its id, warning_number
\* and department as they were.
C4_ForceUpdatesInPlace ==
    [][ (CallStep /\ op'.name = "update_warnings" /\ op'.force) =>
          \A w \in Range(scraped') :
            \A i \in 1..Len(warnings_table) :
                KeyOf(warnings_table[i]) = KeyOf(w) =>
                    /\ warnings_table'[i].severity = w.severity
                    /\ warnings_table'[i].status = w.status
                    /\ warnings_table'[i].title = w.title
                    /\ warnings_table'[i].description = w.description
                    /\ warnings_table'[i].valid_from = w.valid_from
                    /\ warnings_table'[i].valid_until = w.valid_until
                    /\ warnings_table'[i].issued_at = w.issued_at
                    /\ warnings_table'[i].scraped_at = w.scraped_at
                    /\ warnings_table'[i].id = warnings_table[i].id
                    /\ warnings_table'[i].warning_number = warnings_table[i].warning_number
                    /\ warnings_table'[i].department = warnings_table[i].department
      ]_vars

\* a forced pass updated the row a direct save had created
C4_Witness ==
    /\ op.name = "update_warnings"
    /\ op.force
    /\ result.updated = 1
    /\ result.saved = 0
    /\ Len(warnings_table) = 1
    /\ warnings_table[1].title = scraped[1].title
    /\ warnings_table[1].description = scraped[1].description

(***************************************************************************)
(* Properties: the scraper                                                 *)
(***************************************************************************)
\* the status the window TextOf(i)..TextOf(j) has at instant k, by the
\* indices of the instants
StatusAt(i, j, k) ==
    IF i <= k /\ k <= j THEN "vigente"
    ELSE IF k < i THEN "emitido"
         ELSE "vencido"

\* C5: for every window and every time, the status _parse_warning derives
\* is VIGENTE iff valid_from <= now <= valid_until, EMITIDO iff
\* now < valid_from, and VENCIDO in every other case.
C5_StatusDerivation ==
    op.name = "_parse_warning" =>
        \A n \in WarningNumbers, v \in Variants, i \in Times, j \in Times :
            fetched = Aviso(n, v, TextOf(i), TextOf(j)) =>
                /\ op.status \in {"vigente", "emitido", "vencido"}
                /\ op.status = "vigente" <=> (i <= now /\ now <= j)
                /\ op.status = "emitido" <=> now < i
                /\ op.status = "vencido" <=> (~(i <= now /\ now <= j) /\ ~(now < i))

\* a window that opens and closes at the very instant of the call is
\* VIGENTE
C5_Witness ==
    /\ op.name = "_parse_warning"
    /\ fetched.fechaInicio = TextOf(now)
    /\ fetched.fechaFin = TextOf(now)
    /\ op.status = "vigente"

\* C6: every Warning a pass of update_warnings scrapes is EMITIDO or
\* VIGENTE, a raw record whose window has expired gives no Warning, and no
\* row the pass inserts or changes has status VENCIDO.
C6_NoVencidoIngested ==
    [][ (CallStep /\ op'.name = "update_warnings") =>
          /\ \A w \in Range(scraped') : w.status \in {"emitido", "vigente"}
          /\ \A k \in 1..Len(fetched') :
                \A a \in Range(fetched'[k].Avisos) :
                    \A i \in Times, j \in Times :
                        ( /\ a.fechaInicio = TextOf(i)
                          /\ a.fechaFin = TextOf(j)
                          /\ StatusAt(i, j, now) = "vencido" ) =>
                            ~\E w \in Range(scraped') :
                                /\ w.warning_number = a.numero
                                /\ w.department = RequestedDepartments(settings)[k]
          /\ \A i \in 1..Len(warnings_table') :
                (i > Len(warnings_table) \/ warnings_table'[i] # warnings_table[i])
                    => warnings_table'[i].status # "vencido"
      ]_vars

\* a pass met an expired record for one department and stored a warning of
\* the other one
C6_Witness ==
    /\ op.name = "update_warnings"
    /\ now >= 1
    /\ result.saved = 1
    /\ \E k \in 1..Len(fetched) :
        /\ fetched[k] = Payload(<<Aviso("419", 1, TextOf(0), TextOf(0))>>)
        /\ \A i \in 1..Len(warnings_table) : warnings_table[i].warning_number # "419"

\* a raw record with a timestamp strptime rejects
IsMalformed(a) ==
    \/ a.fechaEmision \notin {TextOf(k) : k \in Times}
    \/ a.fechaInicio \notin {TextOf(k) : k \in Times}
    \/ a.fechaFin \notin {TextOf(k) : k \in Times}

\* a raw record that is well formed, not excluded and not expired at k
IsCurrent(a, k) ==
    \E v \in Variants, i \in Times, j \in Times :
        /\ a = Aviso(a.numero, v, TextOf(i), TextOf(j))
        /\ StatusAt(i, j, k) # "vencido"

\* C7: a department response of N raw records, k of them with a malformed
\* timestamp and the others valid, not expired and not excluded, gives
\* exactly the N-k warnings of the others, in their order.
C7_PartialBatch ==
    ( /\ op.name = "scrape_warnings_for_department"
      /\ op.department # "TOKIO"
      /\ fetched.kind = "json"
      /\ fetched.has_avisos
      /\ \A a \in Range(fetched.Avisos) : IsMalformed(a) \/ IsCurrent(a, now) ) =>
        LET current == SelectSeq(fetched.Avisos, LAMBDA a : ~IsMalformed(a))
        IN  /\ Len(scraped) = Len(fetched.Avisos)
                    - Cardinality({m \in 1..Len(fetched.Avisos) :
                                        IsMalformed(fetched.Avisos[m])})
            /\ Len(scraped) = Len(current)
            /\ \A m \in 1..Len(scraped) :
                /\ scraped[m].warning_number = current[m].numero
                /\ scraped[m].senamhi_id = current[m].id
                /\ scraped[m].title = current[m].titulo

\* a response of two records, the first malformed, gave the warning of the
\* second
C7_Witness ==
    /\ op.name = "scrape_warnings_for_department"
    /\ fetched.kind = "json"
    /\ Len(fetched.Avisos) = 2
    /\ IsMalformed(fetched.Avisos[1])
    /\ IsCurrent(fetched.Avisos[2], now)
    /\ Len(scraped) = 1
    /\ scraped[1].senamhi_id = fetched.Avisos[2].id

RemoveAt(sq, k) == SubSeq(sq, 1, k - 1) \o SubSeq(sq, k + 1, Len(sq))

\* C8: in a pass over several departments, a department whose request fails
\* has no warning in the result, and the result is the one of the pass over
\* the other departments alone.
C8_FetchFailureIsolated ==
    op.name = "scrape_warnings" =>
        \A k \in 1..Len(fetched) :
            fetched[k].kind = "error" =>
                /\ \A w \in Range(scraped) :
                        w.department # RequestedDepartments(settings)[k]
                /\ scraped = scrape_warnings(
                                RemoveAt(RequestedDepartments(settings), k),
                                RemoveAt(fetched, k), Instant(now))

\* the first request failed and the pass returned the warnings of the second
C8_Witness ==
    /\ op.name = "scrape_warnings"
    /\ Len(fetched) = 2
    /\ fetched[1].kind = "error"
    /\ scraped # <<>>
    /\ \A w \in Range(scraped) : w.department = RequestedDepartments(settings)[2]

\* the Warning the record i of the request k gives in the pass under check
ParsedAt(k, i) ==
    IF fetched[k].kind = "json" /\ fetched[k].has_avisos
            /\ i \in 1..Len(fetched[k].Avisos)
    THEN _parse_warning(fetched[k].Avisos[i],
                        RequestedDepartments(settings)[k], Instant(now))
    ELSE None

\* (k, i) is the first place of the pass, departments in requested order and
\* records in response order, where a Warning of its key is obtained
IsFirstOfKey(k, i) ==
    /\ ParsedAt(k, i) # None
    /\ \A k2 \in 1..k :
        \A i2 \in 1..MaxAvisos + 1 :
            ( /\ (k2 < k \/ i2 < i)
              /\ ParsedAt(k2, i2) # None )
                => KeyOf(ParsedAt(k2, i2)) # KeyOf(ParsedAt(k, i))

\* C9: the result of a pass has at most one Warning per (warning_number,
\* department), and it is the first one obtained for that key.
C9_FirstOccurrenceWins ==
    op.name = "scrape_warnings" =>
        /\ \A a, b \in 1..Len(scraped) :
                KeyOf(scraped[a]) = KeyOf(scraped[b]) => a = b
        /\ \A k \in 1..Len(fetched) :
                \A i \in 1..MaxAvisos + 1 :
                    IsFirstOfKey(k, i) => ParsedAt(k, i) \in Range(scraped)
        /\ \A w \in Range(scraped) :
                \E k \in 1..Len(fetched) :
                    \E i \in 1..MaxAvisos + 1 :
                        IsFirstOfKey(k, i) /\ w = ParsedAt(k, i)

\* a response repeated a warning_number with other content: the result has
\* the Warning of the first record and not the one of the second
C9_Witness ==
    /\ op.name = "scrape_warnings"
    /\ \E k \in 1..Len(fetched) :
        /\ ParsedAt(k, 1) # None
        /\ ParsedAt(k, 2) # None
        /\ KeyOf(ParsedAt(k, 1)) = KeyOf(ParsedAt(k, 2))
        /\ ParsedAt(k, 1) # ParsedAt(k, 2)
        /\ ParsedAt(k, 1) \in Range(scraped)
        /\ ParsedAt(k, 2) \notin Range(scraped)

(***************************************************************************)
(* Properties: stored geometries                                           *)
(***************************************************************************)
TripleOf(g) == <<g.warning_number, g.day_number, g.nivel>>

\* C10: whatever save_warning_geometry calls are made, at most one row is
\* stored per (warning_number, day_number, nivel), and on a geospatial
\* backend a call for a triple saved before leaves that triple with its one
\* row, holding the geometry of the call.
C10_GeometryKeyIntegrity ==
    /\ \A i, j \in 1..Len(geometries_table) :
            TripleOf(geometries_table[i]) = TripleOf(geometries_table[j]) => i = j
    /\ ( /\ supports_postgis
         /\ Len(geo_saved) >= 2
         /\ \E m \in 1..(Len(geo_saved) - 1) :
                TripleOf(geo_saved[m]) = TripleOf(geo_saved[Len(geo_saved)]) ) =>
            \E i \in 1..Len(geometries_table) :
                /\ TripleOf(geometries_table[i]) = TripleOf(geo_saved[Len(geo_saved)])
                /\ geometries_table[i].geometry
                        = WKTElement(geo_saved[Len(geo_saved)].geometry)

(***************************************************************************)
(* Shapefile downloader: the day count of a warning                        *)
(***************************************************************************)
\* date.toordinal(): days from 01/01/0001 (day 1) to the date of dt
RECURSIVE DaysBeforeMonth(_, _)
DaysBeforeMonth(y, m) ==
    IF m = 1 THEN 0 ELSE DaysBeforeMonth(y, m - 1) + DaysInMonth(y, m - 1)

toordinal(dt) ==
    LET y == dt[1] - 1
    IN  y * 365 + (y \div 4) - (y \div 100) + (y \div 400)
            + DaysBeforeMonth(dt[1], dt[2]) + dt[3]

SecondOfDay(dt) == dt[4] * 3600 + dt[5] * 60 + dt[6]

\* b - a on datetimes: a timedelta, normalised as Python does
\* (0 <= seconds < 86400, days may be negative)
timedelta(a, b) ==
    LET d == toordinal(b) - toordinal(a)
        sec == SecondOfDay(b) - SecondOfDay(a)
    IN  IF sec < 0 THEN [days |-> d - 1, seconds |-> sec + 86400]
        ELSE [days |-> d, seconds |-> sec]

Max(a, b) == IF a >= b THEN a ELSE b

\* ShapefileDownloader.calculate_warning_days
calculate_warning_days(warning) ==
    LET delta == timedelta(warning.valid_from, warning.valid_until)
        days == delta.days + 1
    IN  Max(1, days)

\* the validity bounds of the warnings handed to calculate_warning_days:
\* half-days from 30/11/2025 12:00 on, in either order
DayInstants == {Instant(k) : k \in 0..(2 * MaxDays + 1)}

DayWarnings ==
    { [ id |-> 1, warning_number |-> n, senamhi_id |-> 1001,
        valid_from |-> f, valid_until |-> u ] :
        n \in WarningNumbers, f \in DayInstants, u \in DayInstants }

InitDays ==
    /\ now = 0
    /\ settings \in Settings
    /\ warnings_table = <<>>
    /\ fetched = <<>>
    /\ scraped = <<>>
    /\ result = None
    /\ op \in { [name |-> "call", fn |-> "calculate_warning_days", warning |-> w] :
                    w \in DayWarnings }
    /\ calls = 0
    /\ supports_postgis = FALSE
    /\ geometries_table = <<>>
    /\ geo_saved = <<>>
    /\ NoJobState

\* the pending call of ShapefileDownloader.calculate_warning_days
CalculateWarningDays ==
    /\ op.name = "call"
    /\ op.fn = "calculate_warning_days"
    /\ result' = calculate_warning_days(op.warning)
    /\ op' = [op EXCEPT !.name = "return"]
    /\ UNCHANGED <<now, settings, warnings_table, fetched, scraped, calls,
                   supports_postgis, geometries_table, geo_saved, job_vars>>

NextDays == CalculateWarningDays

SpecDays == InitDays /\ [][NextDays]_vars

(***************************************************************************)
(* Properties: day count                                                   *)
(***************************************************************************)
\* calendar days from the date of a to the date of b
DateDiffDays(a, b) == toordinal(b) - toordinal(a)

\* C11: calculate_warning_days returns 1 when valid_from and valid_until fall
\* on the same calendar day, otherwise the difference of their dates in days
\* plus one, and never less than 1.
C11_DayCount ==
    (op.name = "return" /\ op.fn = "calculate_warning_days") =>
        LET w == op.warning
            d == DateDiffDays(w.valid_from, w.valid_until)
        IN  /\ result >= 1
            /\ d = 0 => result = 1
            /\ d > 0 => result = d + 1

(***************************************************************************)
(* Forecast scraper                                                        *)
(*                                                                         *)
(* A forecast page is what one request of an attempt gets: a request       *)
(* error, or a document with or without the forecast table; a cell of the  *)
(* table names a location "LOCATION - DEPARTMENT" and holds day rows.      *)
(***************************************************************************)
max_retries == 3

retry_delay_seconds == 60

\* the fields of the pydantic model DailyForecast
DailyForecastFields ==
    {"date", "day_name", "temp_max", "temp_min", "weather_icon", "description"}

Cell(location, department, rows) ==
    [location |-> location, department |-> department, rows |-> rows]

RequestError ==
    [kind |-> "error", has_table |-> FALSE, issued_at |-> Instant(0), cells |-> <<>>]

NoTablePage ==
    [kind |-> "html", has_table |-> FALSE, issued_at |-> Instant(0), cells |-> <<>>]

ForecastPage(k, cells) ==
    [kind |-> "html", has_table |-> TRUE, issued_at |-> Instant(k), cells |-> cells]

\* the department names of S in alphabetical order: sorted(set(...))
SortedDepartments(S) == SelectSeq(DEPARTMENT_IDS, LAMBDA d : d \in S)

\* ForecastScraper._make_request and the lookup of the table
PageError(page) ==
    IF page.kind = "error" THEN "ConnectionError"
    ELSE IF ~page.has_table THEN "Forecast table not found"
    ELSE ""

\* ForecastScraper.get_all_departments
get_all_departments(page) ==
    IF PageError(page) # ""
    THEN [raised |-> PageError(page), departments |-> <<>>]
    ELSE [ raised |-> "",
           departments |-> SortedDepartments(
                {page.cells[i].department : i \in 1..Len(page.cells)}) ]

\* ForecastScraper._parse_location_cell: a LocationForecast, or the error of
\* its validation (forecasts has min_length 1) that scrape_forecasts skips
_parse_location_cell(cell, issued_at) ==
    IF cell.rows < 1 THEN None
    ELSE [ location |-> cell.location, department |-> cell.department,
           forecasts |-> cell.rows, issued_at |-> issued_at ]

\* ForecastScraper.scrape_forecasts
scrape_forecasts(departments, page) ==
    IF PageError(page) # "" THEN [raised |-> PageError(page), forecasts |-> <<>>]
    ELSE LET departments_upper == {Upper(departments[i]) : i \in 1..Len(departments)}
             parsed == [ i \in 1..Len(page.cells) |->
                            IF Upper(page.cells[i].department) \in departments_upper
                            THEN _parse_location_cell(page.cells[i], page.issued_at)
                            ELSE None ]
         IN  [raised |-> "", forecasts |-> FilterNone(parsed)]

\* ForecastScraper.scrape_all_departments
scrape_all_departments(page) ==
    LET found == get_all_departments(page)
    IN  IF found.raised # "" THEN [raised |-> found.raised, forecasts |-> <<>>]
        ELSE scrape_forecasts(found.departments, page)

(***************************************************************************)
(* Storage of forecasts: store = [locations, forecasts]                    *)
(***************************************************************************)
\* crud.get_or_create_location
get_or_create_location(store, location, department) ==
    IF \E i \in 1..Len(store.locations) : store.locations[i].location = location
    THEN store
    ELSE [ store EXCEPT !.locations = Append(@,
                [ id |-> Len(@) + 1, location |-> location,
                  department |-> department, latitude |-> None,
                  longitude |-> None, point |-> None ]) ]

LocationId(store, location) ==
    (CHOOSE r \in Range(store.locations) : r.location = location).id

\* crud.save_forecast: the location is committed first, then each day row is
\* built from the fields of the DailyForecast, icon_number among them
save_forecast(store, location_forecast) ==
    LET located == get_or_create_location(store, location_forecast.location,
                        location_forecast.department)
        id == LocationId(located, location_forecast.location)
        rows == [ d \in 1..location_forecast.forecasts |->
                    [ id |-> Len(located.forecasts) + d, location_id |-> id,
                      forecast_date |-> d,
                      issued_at |-> location_forecast.issued_at ] ]
    IN  IF "icon_number" \notin DailyForecastFields
        THEN [store |-> located, saved |-> 0, raised |-> "AttributeError"]
        ELSE [ store |-> [located EXCEPT !.forecasts = @ \o rows],
               saved |-> Len(rows), raised |-> "" ]

\* an existence test that compares the location name with the department
forecast_exists_by_location_name(store, issued_at, department) ==
    \E i \in 1..Len(store.forecasts) :
        /\ store.forecasts[i].issued_at = issued_at
        /\ department # "" =>
            \E l \in Range(store.locations) :
                /\ l.id = store.forecasts[i].location_id
                /\ l.location = department

\* crud.forecast_exists_for_issue_date
forecast_exists_for_issue_date(store, issued_at, department) ==
    \E i \in 1..Len(store.forecasts) :
        /\ store.forecasts[i].issued_at = issued_at
        /\ department # "" =>
            \E l \in Range(store.locations) :
                /\ l.id = store.forecasts[i].location_id
                /\ l.department = department

\* crud.delete_forecasts_by_issue_date
delete_forecasts_by_issue_date(store, issued_at, department) ==
    LET location_ids == { l.id : l \in { r \in Range(store.locations) :
                                            r.department = Upper(department) } }
    IN  [ store EXCEPT !.forecasts = SelectSeq(@, LAMBDA f :
                ~(f.issued_at = issued_at /\ f.location_id \in location_ids)) ]

(***************************************************************************)
(* WeatherService.update_forecasts                                         *)
(***************************************************************************)
\* departments: list[str] | None
NoDepartments == [is_none |-> TRUE, list |-> <<>>]

DepartmentList(list) == [is_none |-> FALSE, list |-> list]

\* the save loop of update_forecasts over forecasts[1..k]; an exception of
\* save_forecast ends the loop and leaves what was committed before it
RECURSIVE SaveForecasts(_, _, _)
SaveForecasts(store, forecasts, k) ==
    IF k = 0 THEN [store |-> store, saved |-> 0, raised |-> "", calls |-> 0]
    ELSE LET before == SaveForecasts(store, forecasts, k - 1)
             after == save_forecast(before.store, forecasts[k])
         IN  IF before.raised # "" THEN before
             ELSE [ store |-> after.store, saved |-> before.saved + after.saved,
                    raised |-> after.raised, calls |-> before.calls + 1 ]

\* WeatherService.update_forecasts, the page being what its requests get.
\* in_hand: the scrape returned forecasts; saving: calls of save_forecast
update_forecasts(store, cfg, departments, force, page) ==
    LET scrape == IF departments.is_none
                  THEN IF cfg.scrape_all_departments
                       THEN scrape_all_departments(page)
                       ELSE scrape_forecasts(get_departments_list(cfg), page)
                  ELSE scrape_forecasts(departments.list, page)
        forecasts == scrape.forecasts
        dept_list == IF departments.is_none
                     THEN IF cfg.scrape_all_departments
                          THEN SortedDepartments(
                                {forecasts[i].department : i \in 1..Len(forecasts)})
                          ELSE get_departments_list(cfg)
                     ELSE departments.list
        issued_at == forecasts[1].issued_at
        data_exists == \E i \in 1..Len(dept_list) :
                          forecast_exists_for_issue_date(store, issued_at, dept_list[i])
        Deleted[i \in 0..Len(dept_list)] ==
            IF i = 0 THEN store
            ELSE delete_forecasts_by_issue_date(Deleted[i - 1], issued_at, dept_list[i])
        cleared == IF data_exists /\ force THEN Deleted[Len(dept_list)] ELSE store
        saved == SaveForecasts(cleared, forecasts, Len(forecasts))
    IN  IF scrape.raised # ""
        THEN [ store |-> store, raised |-> scrape.raised, result |-> None,
               in_hand |-> FALSE, saving |-> 0 ]
        ELSE IF forecasts = <<>>
        THEN [ store |-> store, raised |-> "", in_hand |-> FALSE, saving |-> 0,
               result |-> [ success |-> FALSE, skipped |-> FALSE,
                            error |-> "No forecasts found", message |-> "None",
                            locations |-> 0, saved |-> 0 ] ]
        ELSE IF data_exists /\ ~force
        THEN [ store |-> store, raised |-> "", in_hand |-> TRUE, saving |-> 0,
               result |-> [ success |-> FALSE, skipped |-> TRUE,
                            error |-> "None",
                            message |-> "Data already exists for this issue date",
                            locations |-> Len(forecasts), saved |-> 0 ] ]
        ELSE IF saved.raised # ""
        THEN [ store |-> saved.store, raised |-> saved.raised, result |-> None,
               in_hand |-> TRUE, saving |-> saved.calls ]
        ELSE [ store |-> saved.store, raised |-> "", in_hand |-> TRUE,
               saving |-> saved.calls,
               result |-> [ success |-> TRUE, skipped |-> FALSE, error |-> "None",
                            message |-> "None",
                            locations |-> Len(forecasts), saved |-> saved.saved ] ]

(***************************************************************************)
(* Run tracker                                                             *)
(***************************************************************************)
\* crud.create_scrape_run
create_scrape_run(runs, departments, t) ==
    Append(runs, [ id |-> Len(runs) + 1, started_at |-> t, finished_at |-> <<>>,
                   status |-> "running", locations_scraped |-> 0,
                   forecasts_saved |-> 0, error_message |-> "None",
                   departments |-> departments ])

\* update_scrape_run that forgets to assign the status
update_scrape_run_keep_status(runs, run_id, status, locations_scraped, forecasts_saved, error_message, t) ==
    [ runs EXCEPT ![run_id] =
        [ @ EXCEPT !.finished_at = t,
                   !.locations_scraped = locations_scraped,
                   !.forecasts_saved = forecasts_saved,
                   !.error_message = error_message ] ]

\* crud.update_scrape_run (the run exists: no row is deleted)
update_scrape_run(runs, run_id, status, locations_scraped, forecasts_saved, error_message, t) ==
    [ runs EXCEPT ![run_id] =
        [ @ EXCEPT !.finished_at = t, !.status = status,
                   !.locations_scraped = locations_scraped,
                   !.forecasts_saved = forecasts_saved,
                   !.error_message = error_message ] ]

(***************************************************************************)
(* Scheduled jobs: run_forecast_scrape_job                                 *)
(*                                                                         *)
(* A run is modelled whole.  Its inputs are the page each attempt gets and *)
(* whether populate_coordinates works; its events are what it did, in      *)
(* order.  st is the state of the run: store, runs, events, result,        *)
(* last_error and returned (the job left through the return of the loop).  *)
(***************************************************************************)
\* an except clause that keeps the first error seen
AttemptRaised_keep_first(st, attempt, error) ==
    [ st EXCEPT !.last_error = IF @ = "None" THEN error ELSE @,
                !.events = @ \o <<[ev |-> "raised", attempt |-> attempt,
                                   error |-> error]>>
                             \o (IF attempt < max_retries
                                 THEN <<[ev |-> "sleep",
                                         seconds |-> retry_delay_seconds]>>
                                 ELSE <<>>) ]

\* the except clause of the retry loop (jobs.py 82-92)
AttemptRaised(st, attempt, error) ==
    [ st EXCEPT !.last_error = error,
                !.events = @ \o <<[ev |-> "raised", attempt |-> attempt,
                                   error |-> error]>>
                             \o (IF attempt < max_retries
                                 THEN <<[ev |-> "sleep",
                                         seconds |-> retry_delay_seconds]>>
                                 ELSE <<>>) ]

\* the retry loop from the given attempt on
\* one attempt of the retry loop on the state st, out being what
\* update_forecasts gave: the state after it and whether the loop goes on
Attempt(st, attempt, inp, out) ==
    LET called == [ st EXCEPT
                    !.store = out.store,
                    !.events = @ \o <<[ev |-> "fetch", attempt |-> attempt,
                                       in_hand |-> out.in_hand]>>
                                 \o (IF out.saving > 0
                                     THEN <<[ev |-> "save", attempt |-> attempt,
                                             calls |-> out.saving]>>
                                     ELSE <<>>) ]
        returned == [called EXCEPT !.result = out.result]
        populated == [ returned EXCEPT !.events = @ \o
                        <<[ev |-> "populate_coordinates", attempt |-> attempt]>> ]
    IN  IF out.raised # ""
        THEN [st |-> AttemptRaised(called, attempt, out.raised), again |-> TRUE]
        ELSE IF out.result.success
        THEN IF inp.coordinates_ok
             THEN [st |-> populated, again |-> FALSE]
             ELSE [ st |-> AttemptRaised(populated, attempt, "coordinates error"),
                    again |-> TRUE ]
        ELSE IF out.result.skipped
        THEN [ st |-> [ returned EXCEPT
                        !.runs = update_scrape_run(@, inp.run_id, "skipped",
                                    out.result.locations, 0, out.result.message,
                                    inp.t),
                        !.events = @ \o <<[ev |-> "update_scrape_run",
                                           status |-> "skipped"]>>,
                        !.returned = TRUE ],
               again |-> FALSE ]
        ELSE [ st |-> [ returned EXCEPT
                        !.last_error = out.result.error,
                        !.events = @ \o <<[ev |-> "failure", attempt |-> attempt,
                                           error |-> out.result.error]>> ],
               again |-> TRUE ]

\* the retry loop of run_forecast_scrape_job (jobs.py 47-92) from attempt on
RECURSIVE RetryLoop(_, _, _)
RetryLoop(st, attempt, inp) ==
    IF attempt > max_retries THEN st
    ELSE Only({ IF next.again THEN RetryLoop(next.st, attempt + 1, inp)
                ELSE next.st :
                next \in { Attempt(s, attempt, inp, out) :
                    s \in {st},
                    out \in { update_forecasts(st.store, inp.cfg, inp.dept_list,
                                FALSE, inp.pages[attempt]) } } })

\* run_forecast_scrape_job
run_forecast_scrape_job(store, runs, cfg, pages, coordinates_ok, t) ==
    LET dept_list == IF cfg.scrape_all_departments THEN NoDepartments
                     ELSE DepartmentList(get_departments_list(cfg))
        created == create_scrape_run(runs,
                        IF dept_list.is_none \/ dept_list.list = <<>>
                        THEN <<"ALL">> ELSE dept_list.list, t)
        run_id == Len(runs) + 1
        start == [ store |-> store, runs |-> created,
                   events |-> <<[ev |-> "create_scrape_run", run_id |-> run_id]>>,
                   result |-> None, last_error |-> "None", returned |-> FALSE ]
    IN  Only({ IF looped.returned THEN looped
               ELSE IF looped.result = None \/ ~looped.result.success
               THEN [ looped EXCEPT
                        !.runs = update_scrape_run(@, run_id, "failed", 0, 0,
                                                   looped.last_error, t),
                        !.events = @ \o <<[ev |-> "update_scrape_run",
                                           status |-> "failed"]>> ]
               ELSE [ looped EXCEPT
                        !.runs = update_scrape_run(@, run_id, "success",
                                    looped.result.locations, looped.result.saved,
                                    "None", t),
                        !.events = @ \o <<[ev |-> "update_scrape_run",
                                           status |-> "success"]>> ] :
               looped \in { RetryLoop(start, 1,
                    [ cfg |-> cfg, dept_list |-> dept_list, pages |-> pages,
                      coordinates_ok |-> coordinates_ok, run_id |-> run_id,
                      t |-> t ]) } })

(***************************************************************************)
(* State machine: the forecast job                                         *)
(***************************************************************************)
MaxRuns == 1

\* the pages an attempt may get
ForecastPages ==
    { RequestError, NoTablePage,
      ForecastPage(0, <<>>),
      ForecastPage(0, <<Cell("LIMA ESTE", "LIMA", 2), Cell("CUSCO", "CUSCO", 1)>>),
      ForecastPage(1, <<Cell("LIMA ESTE", "LIMA", 2), Cell("QUILLABAMBA", "CUSCO", 0)>>) }

\* the store the job finds: empty, or holding the forecasts of the issue of
\* instant 0 for one location
StoredForecasts ==
    { [locations |-> <<>>, forecasts |-> <<>>],
      [ locations |-> <<[ id |-> 1, location |-> "LIMA ESTE",
                          department |-> "LIMA", latitude |-> None,
                          longitude |-> None, point |-> None ]>>,
        forecasts |-> <<[ id |-> 1, location_id |-> 1, forecast_date |-> 1,
                          issued_at |-> Instant(0) ]>> ] }

\* the runs recorded before: none, or one that failed
PriorRuns ==
    { <<>>,
      <<[ id |-> 1, started_at |-> Instant(0), finished_at |-> Instant(0),
          status |-> "failed", locations_scraped |-> 0, forecasts_saved |-> 0,
          error_message |-> "ConnectionError", departments |-> <<"ALL">> ]>> }

InitJob ==
    /\ now = 0
    /\ settings \in Settings
    /\ warnings_table = <<>>
    /\ fetched = <<>>
    /\ scraped = <<>>
    /\ result = None
    /\ op = [name |-> "init"]
    /\ calls = 0
    /\ supports_postgis = FALSE
    /\ geometries_table = <<>>
    /\ geo_saved = <<>>
    /\ scrape_runs \in PriorRuns
    /\ \E store \in StoredForecasts :
            /\ locations_table = store.locations
            /\ forecasts_table = store.forecasts
    /\ events = <<>>
    /\ shapefile_cache = {}

\* one execution of run_forecast_scrape_job
RunForecastScrapeJob ==
    /\ calls < MaxRuns
    /\ \E pages \in [1..max_retries -> ForecastPages], coordinates_ok \in BOOLEAN :
            \E after \in { run_forecast_scrape_job(
                            [locations |-> locations_table,
                             forecasts |-> forecasts_table],
                            scrape_runs, settings, pages, coordinates_ok,
                            Instant(now)) } :
                /\ scrape_runs' = after.runs
                /\ locations_table' = after.store.locations
                /\ forecasts_table' = after.store.forecasts
                /\ events' = after.events
                /\ fetched' = pages
                /\ op' = [name |-> "run_forecast_scrape_job"]
    /\ calls' = calls + 1
    /\ UNCHANGED <<now, settings, warnings_table, scraped, result,
                   supports_postgis, geometries_table, geo_saved,
                   shapefile_cache>>

NextJob == RunForecastScrapeJob

SpecJob == InitJob /\ [][NextJob]_vars

(***************************************************************************)
(* Properties: the forecast job                                            *)
(***************************************************************************)
\* the step is one execution of run_forecast_scrape_job
ForecastJobStep ==
    /\ calls' = calls + 1
    /\ op'.name = "run_forecast_scrape_job"

\* the positions of the events of one kind in a run
EventsAt(evs, kind) == {i \in 1..Len(evs) : evs[i].ev = kind}

TerminalStatuses == {"success", "skipped", "failed"}

\* the row of the run just executed
ThisRun(runs) == runs[Len(runs)]

\* C12: every execution of the forecast job creates its ScrapeRun row, with
\* status running, before the first fetch attempt, and changes the status
\* exactly once, as the last thing it does, to success, skipped or failed;
\* a row that has a terminal status is never changed again.
C12_RunLifecycle ==
    [][ ForecastJobStep =>
            /\ Len(scrape_runs') = Len(scrape_runs) + 1
            /\ events'[1] = [ev |-> "create_scrape_run", run_id |-> Len(scrape_runs')]
            /\ create_scrape_run(scrape_runs, ThisRun(scrape_runs').departments,
                    Instant(now))[Len(scrape_runs')].status = "running"
            /\ \A i \in EventsAt(events', "fetch") : i > 1
            /\ EventsAt(events', "update_scrape_run") = {Len(events')}
            /\ events'[Len(events')].status \in TerminalStatuses
            /\ ThisRun(scrape_runs').status = events'[Len(events')].status
            /\ \A i \in 1..Len(scrape_runs) :
                    scrape_runs[i].status \in TerminalStatuses =>
                        scrape_runs'[i] = scrape_runs[i] ]_vars

\* a second run has ended, after attempts, next to the row of an earlier one
C12_Witness ==
    /\ op.name = "run_forecast_scrape_job"
    /\ Len(scrape_runs) = 2
    /\ scrape_runs[1].status = "failed"
    /\ scrape_runs[2].status = "skipped"
    /\ EventsAt(events, "fetch") # {}

\* what the scrape of an attempt of the job returns for a page
JobScrape(cfg, page) ==
    IF cfg.scrape_all_departments THEN scrape_all_departments(page)
    ELSE scrape_forecasts(get_departments_list(cfg), page)

\* the attempt fetches successfully: the scrape returns forecasts
InHand(cfg, page) ==
    JobScrape(cfg, page).raised = "" /\ JobScrape(cfg, page).forecasts # <<>>

\* the error of an attempt that does not fetch successfully
AttemptError(cfg, page) ==
    IF JobScrape(cfg, page).raised # "" THEN JobScrape(cfg, page).raised
    ELSE "No forecasts found"

\* k is the first attempt of pages that fetches successfully
FirstInHand(cfg, pages, k) ==
    /\ InHand(cfg, pages[k])
    /\ \A j \in 1..(k - 1) : ~InHand(cfg, pages[j])

\* the departments the job asks for, given what attempt fetched
RequestedOf(cfg, page) ==
    IF cfg.scrape_all_departments
    THEN { JobScrape(cfg, page).forecasts[i].department :
                i \in 1..Len(JobScrape(cfg, page).forecasts) }
    ELSE Range(get_departments_list(cfg))

\* the departments for which the tables hold a forecast of the issue
StoredFor(locations, forecasts, issued_at) ==
    { l.department : l \in { r \in Range(locations) :
        \E i \in 1..Len(forecasts) :
            /\ forecasts[i].issued_at = issued_at
            /\ forecasts[i].location_id = r.id } }

\* C13: when no attempt of the job fetches successfully, the run ends failed
\* with the error of the last attempt made as its error_message.
C13_FailedWithLastError ==
    [][ ( /\ ForecastJobStep
          /\ \A k \in 1..max_retries : ~InHand(settings, fetched'[k]) ) =>
            /\ ThisRun(scrape_runs').status = "failed"
            /\ Cardinality(EventsAt(events', "fetch")) = max_retries
            /\ ThisRun(scrape_runs').error_message
                    = AttemptError(settings, fetched'[max_retries]) ]_vars

\* a run failed whose last attempt had another error than the one before
C13_Witness ==
    /\ op.name = "run_forecast_scrape_job"
    /\ \A k \in 1..max_retries : ~InHand(settings, fetched[k])
    /\ AttemptError(settings, fetched[1]) = "No forecasts found"
    /\ AttemptError(settings, fetched[2]) = "Forecast table not found"
    /\ AttemptError(settings, fetched[3]) = "ConnectionError"
    /\ ThisRun(scrape_runs).error_message = "ConnectionError"

\* C14: when an attempt fetches forecasts of an issue for which forecasts of
\* a requested department are stored, the run ends skipped with
\* locations_scraped the number of locations fetched and forecasts_saved 0,
\* writes no forecast row and makes no further attempt.
C14_SkippedWhenStored ==
    [][ \A k \in 1..max_retries :
        ( /\ ForecastJobStep
          /\ FirstInHand(settings, fetched', k)
          /\ RequestedOf(settings, fetched'[k])
                \cap StoredFor(locations_table, forecasts_table,
                               fetched'[k].issued_at) # {} ) =>
            /\ ThisRun(scrape_runs').status = "skipped"
            /\ ThisRun(scrape_runs').locations_scraped
                    = Len(JobScrape(settings, fetched'[k]).forecasts)
            /\ ThisRun(scrape_runs').forecasts_saved = 0
            /\ forecasts_table' = forecasts_table
            /\ EventsAt(events', "save") = {}
            /\ Cardinality(EventsAt(events', "fetch")) = k ]_vars

\* a run was skipped at its second attempt, two locations fetched
C14_Witness ==
    /\ op.name = "run_forecast_scrape_job"
    /\ ~InHand(settings, fetched[1])
    /\ InHand(settings, fetched[2])
    /\ ThisRun(scrape_runs).status = "skipped"
    /\ ThisRun(scrape_runs).locations_scraped = 2
    /\ forecasts_table # <<>>

\* C15: when an attempt fetches forecasts of an issue of which nothing was
\* stored before the job started, the forecasts are persisted and the run
\* ends success with the counts fetched and saved.
C15_SuccessWhenNew ==
    [][ \A k \in 1..max_retries :
        ( /\ ForecastJobStep
          /\ FirstInHand(settings, fetched', k)
          /\ \A i \in 1..Len(forecasts_table) :
                forecasts_table[i].issued_at # fetched'[k].issued_at ) =>
            LET got == JobScrape(settings, fetched'[k]).forecasts
            IN  /\ ThisRun(scrape_runs').status = "success"
                /\ ThisRun(scrape_runs').locations_scraped = Len(got)
                /\ ThisRun(scrape_runs').forecasts_saved
                        = Len(forecasts_table') - Len(forecasts_table)
                /\ \A i \in 1..Len(got) : \A d \in 1..got[i].forecasts :
                        \E r \in Range(forecasts_table') :
                            /\ r.issued_at = got[i].issued_at
                            /\ r.forecast_date = d
                            /\ \E l \in Range(locations_table') :
                                    l.id = r.location_id
                                        /\ l.location = got[i].location ]_vars

\* C16: a run makes at most max_retries attempts, one sleep of
\* retry_delay_seconds separates every two consecutive attempts, however the
\* earlier one failed, and no sleep follows the last attempt.
C16_SleepBetweenAttempts ==
    [][ ForecastJobStep =>
        LET fetches == EventsAt(events', "fetch")
            sleeps == EventsAt(events', "sleep")
        IN  /\ Cardinality(fetches) <= max_retries
            /\ \A i, j \in fetches :
                    (i < j /\ \A m \in fetches : ~(i < m /\ m < j)) =>
                        /\ Cardinality({n \in sleeps : i < n /\ n < j}) = 1
            /\ \A n \in sleeps :
                    /\ events'[n].seconds = retry_delay_seconds
                    /\ \E j \in fetches : n < j ]_vars

\* C17: once an attempt has started saving, the run fetches no more and
\* saves no more: at most one attempt of a run saves.
C17_SaveNotRetried ==
    [][ ForecastJobStep =>
        LET fetches == EventsAt(events', "fetch")
            saves == EventsAt(events', "save")
        IN  /\ \A i \in saves : \A j \in fetches : j < i
            /\ Cardinality(saves) <= 1 ]_vars

(***************************************************************************)
(* The scheduled warnings job                                              *)
(***************************************************************************)
\* a warnings job that refreshes the stored warnings
run_warnings_scrape_job_force(table, runs, depts, responses, db_ok, t) ==
    LET warnings == scrape_warnings(depts, responses, t)
        after == update_warnings(table, warnings, TRUE)
        raised == ~db_ok /\ after.table # table
    IN  [ table |-> IF raised THEN table ELSE after.table,
          runs |-> runs,
          events |-> <<[ev |-> "update_warnings", force |-> TRUE]>>
                     \o (IF raised
                         THEN <<[ev |-> "raised", error |-> "OperationalError"]>>
                         ELSE <<>>),
          result |-> IF raised THEN None ELSE after.result ]

\* run_warnings_scrape_job: one call of update_warnings(force=False) inside a
\* try that catches every exception.  responses are what the requests of the
\* scrape give; when db_ok is false the first commit of save_warning raises,
\* the only exception update_warnings lets through.
run_warnings_scrape_job(table, runs, depts, responses, db_ok, t) ==
    LET warnings == scrape_warnings(depts, responses, t)
        after == update_warnings(table, warnings, FALSE)
        raised == ~db_ok /\ after.table # table
    IN  [ table |-> IF raised THEN table ELSE after.table,
          runs |-> runs,
          events |-> <<[ev |-> "update_warnings", force |-> FALSE]>>
                     \o (IF raised
                         THEN <<[ev |-> "raised", error |-> "OperationalError"]>>
                         ELSE <<>>),
          result |-> IF raised THEN None ELSE after.result ]

\* one execution of run_warnings_scrape_job
RunWarningsScrapeJob ==
    LET depts == RequestedDepartments(settings)
    IN  /\ calls < MaxCalls
        /\ \E responses \in [1..Len(depts) -> StoreResponses],
              db_ok \in BOOLEAN :
                \E after \in { run_warnings_scrape_job(warnings_table,
                                scrape_runs, depts, responses, db_ok,
                                Instant(now)) } :
                    /\ warnings_table' = after.table
                    /\ scrape_runs' = after.runs
                    /\ events' = after.events
                    /\ result' = after.result
                    /\ fetched' = responses
                    /\ op' = [name |-> "run_warnings_scrape_job"]
        /\ calls' = calls + 1
        /\ UNCHANGED <<now, settings, scraped, supports_postgis,
                       geometries_table, geo_saved, locations_table,
                       forecasts_table, shapefile_cache>>

NextWarnJob == RunWarningsScrapeJob

SpecWarnJob == InitJob /\ [][NextWarnJob]_vars

WarningsJobStep ==
    /\ calls' = calls + 1
    /\ op'.name = "run_warnings_scrape_job"

\* C18: an execution of the warnings job calls update_warnings once, with
\* force=False, whether it returns or raises, and leaves the ScrapeRun rows
\* as they were.
C18_WarningsJobOnce ==
    [][ WarningsJobStep =>
        /\ Cardinality(EventsAt(events', "update_warnings")) = 1
        /\ \A i \in EventsAt(events', "update_warnings") : ~events'[i].force
        /\ scrape_runs' = scrape_runs ]_vars

\* the job ran after a stored run row and warnings, and its call raised
C18_Witness ==
    /\ op.name = "run_warnings_scrape_job"
    /\ calls = 2
    /\ scrape_runs # <<>>
    /\ warnings_table # <<>>
    /\ EventsAt(events, "raised") # {}
    /\ EventsAt(events, "update_warnings") # {}

(***************************************************************************)
(* The shapefile pipeline and the geometry operations                      *)
(***************************************************************************)
\* values returned by the operations, as records
ListV(items) == [items |-> items]

IntV(n) == [value |-> n]

BoolV(b) == [truth |-> b]

\* the archive warning_{number}_day_{day}_{year}.zip of the download directory
ZipFile(warning_number, day, year) ==
    [warning_number |-> warning_number, day |-> day, year |-> year]

\* what the GeoServer request of a download gives: an archive, a body that
\* is no archive, a RequestException
DownloadResponses == {"zip", "not zip", "error"}

\* download_shapefile without the test for the local file: every call
\* requests the archive, writes it and unlinks what is no archive
download_shapefile_always_request(cache, warning_number, day, year, response) ==
    LET filepath == ZipFile(warning_number, day, year)
    IN  IF response = "zip"
        THEN [ cache |-> cache \cup {filepath}, returned |-> filepath,
               requested |-> TRUE ]
        ELSE [ cache |-> cache \ {filepath}, returned |-> None,
               requested |-> TRUE ]

\* ShapefileDownloader.download_shapefile: the cache after the call, the
\* path returned and whether the server was requested
download_shapefile(cache, warning_number, day, year, response) ==
    LET filepath == ZipFile(warning_number, day, year)
    IN  IF filepath \in cache
        THEN [cache |-> cache, returned |-> filepath, requested |-> FALSE]
        ELSE IF response = "zip"
        THEN [ cache |-> cache \cup {filepath}, returned |-> filepath,
               requested |-> TRUE ]
        ELSE [cache |-> cache, returned |-> None, requested |-> TRUE]

\* shapely geometries
Polygon(name) == [type |-> "Polygon", geoms |-> <<name>>]

MultiPolygon(geoms) == [type |-> "MultiPolygon", geoms |-> geoms]

Point(name) == [type |-> "Point", geoms |-> <<name>>]

\* the nivel attribute of a shapefile row: a text whose last word is an
\* integer ("Nivel 2") or is not ("Nivel alto")
NivelText(k) == [last |-> IntV(k)]

NivelBad == [last |-> None]

\* int(nivel_str.split()[-1]), 1 on ValueError
ParseNivel(nivel_str) == IF nivel_str.last = None THEN 1 ELSE nivel_str.last.value

\* the loop of parse_shapefile_zip over the rows of the dataframe
RECURSIVE ParseRows(_, _)
ParseRows(rows, k) ==
    IF k = 0 THEN <<>>
    ELSE LET before == ParseRows(rows, k - 1)
             geom == rows[k].geometry
         IN  IF geom = None THEN before
             ELSE IF geom.type = "Polygon"
             THEN Append(before, [ geometry |-> MultiPolygon(geom.geoms),
                                   nivel |-> ParseNivel(rows[k].nivel) ])
             ELSE IF geom.type = "MultiPolygon"
             THEN Append(before, [ geometry |-> geom,
                                   nivel |-> ParseNivel(rows[k].nivel) ])
             ELSE before

\* a parser that reads the archive on any backend
parse_shapefile_zip_ungated(postgis, content) ==
    IF ~content.readable THEN None
    ELSE IF content.rows = <<>> THEN None
    ELSE LET polygons == ParseRows(content.rows, Len(content.rows))
         IN  IF polygons = <<>> THEN None ELSE ListV(polygons)

\* ShapefileParser.parse_shapefile_zip: content is what geopandas reads from
\* the archive (readable false: read_file raises)
parse_shapefile_zip(postgis, content) ==
    IF ~postgis THEN None
    ELSE IF ~content.readable THEN None
    ELSE IF content.rows = <<>> THEN None
    ELSE LET polygons == ParseRows(content.rows, Len(content.rows))
         IN  IF polygons = <<>> THEN None ELSE ListV(polygons)

\* order_by(day_number): a stable sort of the rows
RECURSIVE OrderByDay(_)
OrderByDay(rows) ==
    IF rows = <<>> THEN <<>>
    ELSE LET init == OrderByDay(SubSeq(rows, 1, Len(rows) - 1))
             r == rows[Len(rows)]
             k == Cardinality({ i \in 1..Len(init) :
                                    init[i].day_number <= r.day_number })
         IN  SubSeq(init, 1, k) \o <<r>> \o SubSeq(init, k + 1, Len(init))

\* order_by(day_number, nivel): a stable sort of the rows
RECURSIVE OrderByDayNivel(_)
OrderByDayNivel(rows) ==
    IF rows = <<>> THEN <<>>
    ELSE LET init == OrderByDayNivel(SubSeq(rows, 1, Len(rows) - 1))
             r == rows[Len(rows)]
             k == Cardinality({ i \in 1..Len(init) :
                    \/ init[i].day_number < r.day_number
                    \/ /\ init[i].day_number = r.day_number
                       /\ init[i].nivel <= r.nivel })
         IN  SubSeq(init, 1, k) \o <<r>> \o SubSeq(init, k + 1, Len(init))

\* geo_crud.get_warning_geometries
get_warning_geometries(table, postgis, warning_id) ==
    IF ~postgis THEN [returned |-> None, raised |-> ""]
    ELSE [ returned |-> ListV(OrderByDay(
                SelectSeq(table, LAMBDA r : r.warning_id = warning_id))),
           raised |-> "" ]

\* geo_crud.get_warning_geometry_by_day
get_warning_geometry_by_day(table, postgis, warning_id, day_number) ==
    IF ~postgis THEN [returned |-> None, raised |-> ""]
    ELSE LET found == SelectSeq(table, LAMBDA r :
                        r.warning_id = warning_id /\ r.day_number = day_number)
         IN  [ returned |-> IF found = <<>> THEN None ELSE found[1],
               raised |-> "" ]

\* geo_crud.get_warning_geometries_by_number
get_warning_geometries_by_number(table, postgis, warning_number) ==
    IF ~postgis THEN [returned |-> ListV(<<>>), raised |-> ""]
    ELSE IF ~({"warning_number", "day_number", "nivel"}
                \subseteq WarningGeometryAttributes)
    THEN [returned |-> None, raised |-> "AttributeError"]
    ELSE [ returned |-> ListV(OrderByDayNivel(
                SelectSeq(table, LAMBDA r : r.warning_number = warning_number))),
           raised |-> "" ]

\* geo_crud.get_warning_geometry_by_number_and_day
get_warning_geometry_by_number_and_day(table, postgis, warning_number, day_number) ==
    IF ~postgis THEN [returned |-> ListV(<<>>), raised |-> ""]
    ELSE IF ~({"warning_number", "day_number"} \subseteq WarningGeometryAttributes)
    THEN [returned |-> None, raised |-> "AttributeError"]
    ELSE [ returned |-> ListV(SelectSeq(table, LAMBDA r :
                /\ r.warning_number = warning_number
                /\ r.day_number = day_number)),
           raised |-> "" ]

\* geo_crud.delete_warning_geometries: the table after the call and the count
delete_warning_geometries(table, postgis, warning_id) ==
    IF ~postgis THEN [table |-> table, returned |-> IntV(0)]
    ELSE LET kept == SelectSeq(table, LAMBDA r : r.warning_id # warning_id)
         IN  [table |-> kept, returned |-> IntV(Len(table) - Len(kept))]

\* the POINT(longitude latitude) of a location
PointOf(location) ==
    WKTElement([ type |-> "POINT", longitude |-> location.longitude,
                 latitude |-> location.latitude ])

\* GeoService.sync_point_from_coordinates
sync_point_from_coordinates(locations, postgis, location_id) ==
    IF ~postgis THEN [locations |-> locations, returned |-> BoolV(FALSE)]
    ELSE LET i == FirstIndex(locations, LAMBDA r : r.id = location_id)
         IN  IF i = 0 \/ locations[i].latitude = None
                      \/ locations[i].longitude = None
             THEN [locations |-> locations, returned |-> BoolV(FALSE)]
             ELSE [ locations |-> [locations EXCEPT ![i].point = PointOf(locations[i])],
                    returned |-> BoolV(TRUE) ]

\* GeoService.sync_all_points
sync_all_points(locations, postgis) ==
    IF ~postgis THEN [locations |-> locations, returned |-> IntV(0)]
    ELSE LET HasCoordinates(r) == r.latitude # None /\ r.longitude # None
         IN  [ locations |-> [ i \in 1..Len(locations) |->
                    IF HasCoordinates(locations[i])
                    THEN [locations[i] EXCEPT !.point = PointOf(locations[i])]
                    ELSE locations[i] ],
               returned |-> IntV(Cardinality({ i \in 1..Len(locations) :
                                    HasCoordinates(locations[i]) })) ]

(***************************************************************************)
(* scheduler.jobs: run_shapefile_download_job                              *)
(***************************************************************************)
\* the dict warnings_by_number: the first row of every warning_number
RECURSIVE warnings_by_number(_)
warnings_by_number(rows) ==
    IF rows = <<>> THEN <<>>
    ELSE LET init == warnings_by_number(SubSeq(rows, 1, Len(rows) - 1))
             w == rows[Len(rows)]
         IN  IF \E i \in 1..Len(init) : init[i].warning_number = w.warning_number
             THEN init ELSE Append(init, w)

\* the download loop of one warning (jobs.py 240-250): stops at the first
\* day whose download fails
RECURSIVE DownloadDays(_, _, _, _, _)
DownloadDays(st, warning, day, num_days, responses) ==
    IF day > num_days THEN [st EXCEPT !.download_success = TRUE]
    ELSE LET got == download_shapefile(st.cache, warning.warning_number, day,
                        warning.valid_from[1],
                        IF <<warning.warning_number, day>> \in DOMAIN responses
                        THEN responses[<<warning.warning_number, day>>]
                        ELSE "error")
             next == [ st EXCEPT !.cache = got.cache,
                         !.events = Append(@, [ ev |-> "download",
                            warning_number |-> warning.warning_number,
                            day |-> day, requested |-> got.requested ]) ]
         IN  IF got.returned # None
             THEN DownloadDays([next EXCEPT !.downloaded = @ + 1], warning,
                               day + 1, num_days, responses)
             ELSE [next EXCEPT !.download_success = FALSE]

\* the keys of the dict polygons_by_nivel, in insertion order
RECURSIVE NivelKeys(_, _)
NivelKeys(polygons, k) ==
    IF k = 0 THEN <<>>
    ELSE LET before == NivelKeys(polygons, k - 1)
         IN  IF \E i \in 1..Len(before) : before[i] = polygons[k].nivel
             THEN before ELSE Append(before, polygons[k].nivel)

\* all_polys of one nivel: the polygons of its geometries, in order
RECURSIVE AllPolys(_, _, _)
AllPolys(polygons, nivel, k) ==
    IF k = 0 THEN <<>>
    ELSE AllPolys(polygons, nivel, k - 1)
            \o (IF polygons[k].nivel = nivel THEN polygons[k].geometry.geoms
                ELSE <<>>)

\* the saves of one day, one per nivel (jobs.py 280-301); a save that
\* raises ends the processing of the warning
RECURSIVE SaveLevels(_, _, _, _, _, _, _)
SaveLevels(st, warning, day, polygons, levels, k, t) ==
    IF k = 0 THEN st
    ELSE LET before == SaveLevels(st, warning, day, polygons, levels, k - 1, t)
             saved == save_warning_geometry(before.table, TRUE, warning.id,
                        warning.warning_number, day,
                        MultiPolygon(AllPolys(polygons, levels[k], Len(polygons))),
                        levels[k], "url", ZipFile(warning.warning_number, day,
                                                  warning.valid_from[1]), t)
         IN  IF before.raised # "" THEN before
             ELSE IF saved.raised # ""
             THEN [before EXCEPT !.raised = saved.raised]
             ELSE [ before EXCEPT !.table = saved.table,
                      !.total_polygons = @ + 1,
                      !.events = Append(@, [ ev |-> "save",
                            warning_number |-> warning.warning_number,
                            day |-> day, nivel |-> levels[k] ]) ]

\* the parse and sync loop of one warning (jobs.py 256-302)
RECURSIVE SyncDays(_, _, _, _, _)
SyncDays(st, warning, day, contents, t) ==
    IF day = 0 THEN st
    ELSE LET before == SyncDays(st, warning, day - 1, contents, t)
             zip_path == ZipFile(warning.warning_number, day, warning.valid_from[1])
             polygons == IF day \in DOMAIN contents
                         THEN parse_shapefile_zip(TRUE, contents[day])
                         ELSE None
         IN  IF before.raised # "" \/ zip_path \notin before.cache
                \/ polygons = None
             THEN before
             ELSE SaveLevels(before, warning, day, polygons.items,
                    NivelKeys(polygons.items, Len(polygons.items)),
                    Len(NivelKeys(polygons.items, Len(polygons.items))), t)

\* the loop over warnings_by_number (jobs.py 216-309); the query of the
\* geometry rows of a number reads WarningGeometry.warning_number, outside
\* the try of the warning
RECURSIVE ProcessWarnings(_, _, _, _, _, _)
ProcessWarnings(st, unique, k, responses, contents, t) ==
    IF k = 0 THEN st
    ELSE
      LET before == ProcessWarnings(st, unique, k - 1, responses, contents, t)
          warning == unique[k]
          queried == [ before EXCEPT !.events = Append(@,
                        [ ev |-> "query", warning_number |-> warning.warning_number ]) ]
          fetched_days == DownloadDays([queried EXCEPT !.total_polygons = 0],
                            warning, 1, calculate_warning_days(warning), responses)
          synced_days == SyncDays(fetched_days, warning,
                            calculate_warning_days(warning), contents, t)
      IN  IF before.failed # "" THEN before
          ELSE IF "warning_number" \notin WarningGeometryAttributes
          THEN [queried EXCEPT !.failed = "AttributeError"]
          ELSE IF \E i \in 1..Len(before.table) :
                    before.table[i].warning_number = warning.warning_number
          THEN [ queried EXCEPT !.skipped = @ + 1,
                    !.events = Append(@, [ ev |-> "skip",
                        warning_number |-> warning.warning_number ]) ]
          ELSE IF ~fetched_days.download_success THEN fetched_days
          ELSE IF synced_days.raised # ""
          THEN [ synced_days EXCEPT !.raised = "",
                    !.events = Append(@, [ ev |-> "error",
                        warning_number |-> warning.warning_number ]) ]
          ELSE IF synced_days.total_polygons > 0
          THEN [synced_days EXCEPT !.synced = @ + 1]
          ELSE synced_days

\* the rows of the query of the active warnings (jobs.py 190-195)
ActiveWarnings(warnings) ==
    SelectSeq(warnings, LAMBDA w : w.status \in {"vigente", "emitido"})

\* run_shapefile_download_job: the geometry table and the cache after the
\* run, the warnings it found active (jobs.py 207), what the run did and
\* how it ended.  responses are what the
\* downloads give, contents what the archive of each day holds.
run_shapefile_download_job(postgis, warnings, table, cache, responses, contents, t) ==
    LET start == [ table |-> table, cache |-> cache, events |-> <<>>,
                   downloaded |-> 0, synced |-> 0, skipped |-> 0,
                   total_polygons |-> 0, download_success |-> TRUE,
                   raised |-> "", failed |-> "" ]
        active_warnings == ActiveWarnings(warnings)
        unique == warnings_by_number(active_warnings)
        done == ProcessWarnings(start, unique, Len(unique), responses, contents, t)
    IN  IF ~postgis
        THEN [ table |-> table, cache |-> cache, events |-> <<>>,
               selected |-> <<>>, outcome |-> "no postgis" ]
        ELSE IF active_warnings = <<>>
        THEN [ table |-> table, cache |-> cache, events |-> <<>>,
               selected |-> <<>>, outcome |-> "no active warnings" ]
        ELSE [ table |-> done.table, cache |-> done.cache,
               events |-> done.events, selected |-> unique,
               outcome |-> IF done.failed # "" THEN "failed" ELSE "completed" ]

(***************************************************************************)
(* State machine: the geometry operations on either backend                *)
(***************************************************************************)
\* a stored warning of the shapefile job
ShapeWarning(id, warning_number, department, status, until) ==
    WarningAlert(id,
        [ senamhi_id |-> 1000 + id, warning_number |-> warning_number,
          department |-> department, severity |-> "amarillo",
          status |-> status, title |-> <<"Aviso">>, description |-> "Test",
          valid_from |-> Instant(0), valid_until |-> Instant(until),
          issued_at |-> Instant(0), scraped_at |-> Instant(0) ])

\* the warnings the operations find stored
ShapeWarningTables ==
    { <<>>,
      << ShapeWarning(1, "418", "LIMA", "vigente", MaxTime),
         ShapeWarning(2, "419", "LIMA", "vencido", 1),
         ShapeWarning(3, "418", "CUSCO", "vigente", MaxTime) >>,
      << ShapeWarning(1, "418", "LIMA", "vigente", MaxTime),
         ShapeWarning(2, "419", "LIMA", "emitido", MaxTime) >> }

\* the locations the operations find stored, with and without coordinates
ShapeLocations ==
    { <<>>,
      << [ id |-> 1, location |-> "LIMA ESTE", department |-> "LIMA",
           latitude |-> IntV(-12), longitude |-> IntV(-77), point |-> None ],
         [ id |-> 2, location |-> "CUSCO", department |-> "CUSCO",
           latitude |-> None, longitude |-> None, point |-> None ] >> }

\* the archives of the cache: the extensions of their members and what
\* geopandas reads from them (an archive without .shx does not open, one
\* without .dbf opens with the default nivel)
ZipContents ==
    { [members |-> {"shp", "dbf"}, readable |-> FALSE, rows |-> <<>>],
      [members |-> {"shp", "shx", "dbf"}, readable |-> TRUE, rows |-> <<>>],
      [ members |-> {"shp", "shx", "dbf"}, readable |-> TRUE,
        rows |-> << [geometry |-> Polygon("A"), nivel |-> NivelText(MaxNivel)],
                    [geometry |-> Point("P"), nivel |-> NivelText(1)],
                    [geometry |-> MultiPolygon(<<"B", "C">>), nivel |-> NivelBad],
                    [geometry |-> Polygon("D"), nivel |-> NivelText(MaxNivel)] >> ],
      [ members |-> {"shp", "shx"}, readable |-> TRUE,
        rows |-> <<[geometry |-> Polygon("E"), nivel |-> NivelText(1)]>> ] }

InitShape ==
    /\ now = 0
    /\ settings = [scrape_all_departments |-> TRUE, departments |-> <<"LIMA">>]
    /\ warnings_table \in ShapeWarningTables
    /\ fetched = <<>>
    /\ scraped = <<>>
    /\ result = None
    /\ op = [name |-> "init"]
    /\ calls = 0
    /\ supports_postgis \in BOOLEAN
    /\ geometries_table = <<>>
    /\ geo_saved = <<>>
    /\ scrape_runs = <<>>
    /\ locations_table \in ShapeLocations
    /\ forecasts_table = <<>>
    /\ events = <<>>
    /\ shapefile_cache = {}

\* one call of ShapefileDownloader.download_shapefile
DownloadShapefile ==
    /\ calls < MaxCalls
    /\ \E warning_number \in WarningNumbers, day \in 1..MaxDays,
          response \in DownloadResponses :
            LET after == download_shapefile(shapefile_cache, warning_number,
                            day, Instant(0)[1], response)
            IN  /\ shapefile_cache' = after.cache
                /\ op' = [ name |-> "download_shapefile",
                           returned |-> after.returned, raised |-> "",
                           warning_number |-> warning_number, day |-> day,
                           requested |-> after.requested ]
    /\ calls' = calls + 1
    /\ UNCHANGED <<now, settings, warnings_table, fetched, scraped, result,
                   supports_postgis, geometries_table, geo_saved, scrape_runs,
                   locations_table, forecasts_table, events>>

\* one call of ShapefileParser.parse_shapefile_zip
ParseShapefileZip ==
    /\ calls < MaxCalls
    /\ \E content \in ZipContents :
            op' = [ name |-> "parse_shapefile_zip",
                    returned |-> parse_shapefile_zip(supports_postgis, content),
                    raised |-> "", content |-> content ]
    /\ calls' = calls + 1
    /\ UNCHANGED <<now, settings, warnings_table, fetched, scraped, result,
                   supports_postgis, geometries_table, geo_saved, job_vars>>

\* one call of one of the geometry queries of geo_crud
QueryGeometries ==
    /\ calls < MaxCalls
    /\ \/ \E warning_id \in 1..MaxCalls :
            LET got == get_warning_geometries(geometries_table,
                            supports_postgis, warning_id)
            IN  op' = [ name |-> "get_warning_geometries",
                        returned |-> got.returned, raised |-> got.raised ]
       \/ \E warning_id \in 1..MaxCalls, day_number \in 1..MaxDays :
            LET got == get_warning_geometry_by_day(geometries_table,
                            supports_postgis, warning_id, day_number)
            IN  op' = [ name |-> "get_warning_geometry_by_day",
                        returned |-> got.returned, raised |-> got.raised ]
       \/ \E warning_number \in WarningNumbers :
            LET got == get_warning_geometries_by_number(geometries_table,
                            supports_postgis, warning_number)
            IN  op' = [ name |-> "get_warning_geometries_by_number",
                        returned |-> got.returned, raised |-> got.raised ]
       \/ \E warning_number \in WarningNumbers, day_number \in 1..MaxDays :
            LET got == get_warning_geometry_by_number_and_day(geometries_table,
                            supports_postgis, warning_number, day_number)
            IN  op' = [ name |-> "get_warning_geometry_by_number_and_day",
                        returned |-> got.returned, raised |-> got.raised ]
    /\ calls' = calls + 1
    /\ UNCHANGED <<now, settings, warnings_table, fetched, scraped, result,
                   supports_postgis, geometries_table, geo_saved, job_vars>>

\* one call of geo_crud.delete_warning_geometries
DeleteWarningGeometries ==
    /\ calls < MaxCalls
    /\ \E warning_id \in 1..MaxCalls :
            LET after == delete_warning_geometries(geometries_table,
                            supports_postgis, warning_id)
            IN  /\ geometries_table' = after.table
                /\ op' = [ name |-> "delete_warning_geometries",
                           returned |-> after.returned, raised |-> "" ]
    /\ calls' = calls + 1
    /\ UNCHANGED <<now, settings, warnings_table, fetched, scraped, result,
                   supports_postgis, geo_saved, job_vars>>

\* one call of GeoService.sync_point_from_coordinates or sync_all_points
SyncPoints ==
    /\ calls < MaxCalls
    /\ \/ \E location_id \in 1..MaxCalls :
            LET after == sync_point_from_coordinates(locations_table,
                            supports_postgis, location_id)
            IN  /\ locations_table' = after.locations
                /\ op' = [ name |-> "sync_point_from_coordinates",
                           returned |-> after.returned, raised |-> "" ]
       \/ LET after == sync_all_points(locations_table, supports_postgis)
          IN  /\ locations_table' = after.locations
              /\ op' = [ name |-> "sync_all_points",
                         returned |-> after.returned, raised |-> "" ]
    /\ calls' = calls + 1
    /\ UNCHANGED <<now, settings, warnings_table, fetched, scraped, result,
                   supports_postgis, geometries_table, geo_saved, scrape_runs,
                   forecasts_table, events, shapefile_cache>>

\* the downloads the server refuses during a run: none or one
FailingDownloads ==
    {{}} \cup {{k} : k \in WarningNumbers \X (1..MaxDays)}

\* what the archives of a run hold: nothing readable, or polygons
JobContents ==
    { c \in ZipContents :
        \/ ~c.readable
        \/ c.rows # <<>> /\ c.members = {"shp", "shx", "dbf"} }

\* one execution of run_shapefile_download_job; the server and the archives
\* are only consulted on a geospatial backend
RunShapefileDownloadJob ==
    /\ calls < MaxCalls
    /\ \E failing \in IF supports_postgis THEN FailingDownloads ELSE {{}},
          contents \in IF supports_postgis THEN [1..MaxDays -> JobContents]
                       ELSE {<<>>} :
         \E responses \in { [ k \in WarningNumbers \X (1..MaxDays) |->
                                IF k \in failing THEN "error" ELSE "zip" ] } :
            \E after \in { run_shapefile_download_job(supports_postgis,
                            warnings_table, geometries_table, shapefile_cache,
                            responses, contents, Instant(now)) } :
                /\ geometries_table' = after.table
                /\ shapefile_cache' = after.cache
                /\ events' = after.events
                /\ op' = [ name |-> "run_shapefile_download_job",
                           returned |-> None, raised |-> "",
                           outcome |-> after.outcome, failing |-> failing,
                           contents |-> contents,
                           selected |-> after.selected ]
    /\ calls' = calls + 1
    /\ UNCHANGED <<now, settings, warnings_table, fetched, scraped, result,
                   supports_postgis, geo_saved, scrape_runs, locations_table,
                   forecasts_table>>

NextShape ==
    \/ DownloadShapefile
    \/ ParseShapefileZip
    \/ SaveWarningGeometry
    \/ QueryGeometries
    \/ DeleteWarningGeometries
    \/ SyncPoints
    \/ RunShapefileDownloadJob

SpecShape == InitShape /\ [][NextShape]_vars

(***************************************************************************)
(* Properties: the geometry operations without a geospatial backend        *)
(***************************************************************************)
\* the values of an operation that did nothing
NoOpValues == {None, ListV(<<>>), IntV(0), BoolV(FALSE)}

\* a step that does nothing: an empty value returned, nothing raised, the
\* store and the archive cache as before
NoOpStep ==
    /\ op'.returned \in NoOpValues
    /\ op'.raised = ""
    /\ geometries_table' = geometries_table
    /\ locations_table' = locations_table
    /\ warnings_table' = warnings_table
    /\ shapefile_cache' = shapefile_cache

\* C19 as stated: without a geospatial backend every geometry operation,
\* the download included, returns an empty value and changes neither the
\* store nor the archive cache.
C19_AllOperationsNoOps ==
    [][ (calls' = calls + 1 /\ ~supports_postgis) => NoOpStep ]_vars

\* C19: without a geospatial backend the parse, the save, the queries, the
\* delete, the point syncs and the shapefile job return an empty value and
\* change neither the store nor the archive cache; download_shapefile is
\* not gated.
C19_GatedOperationsNoOps ==
    [][ ( /\ calls' = calls + 1
          /\ ~supports_postgis
          /\ op'.name # "download_shapefile" ) => NoOpStep ]_vars

\* without a geospatial backend an archive was downloaded and the parse of
\* an archive with polygons returned None
C19_Witness ==
    /\ ~supports_postgis
    /\ shapefile_cache # {}
    /\ op.name = "parse_shapefile_zip"
    /\ op.content.readable
    /\ op.content.rows # <<>>
    /\ op.returned = None

(***************************************************************************)
(* Properties: the shapefile job                                           *)
(***************************************************************************)
\* the events of a run that concern a warning_number
EventsOf(evs, kinds, warning_number) ==
    { i \in 1..Len(evs) : /\ evs[i].ev \in kinds
                          /\ evs[i].warning_number = warning_number }

ShapeJobStep ==
    /\ calls' = calls + 1
    /\ op'.name = "run_shapefile_download_job"
    /\ supports_postgis

\* the warning_numbers a run has to download: stored as emitido or vigente
\* and without a geometry row
Eligible(warnings, table) ==
    { warnings[i].warning_number :
        i \in { j \in 1..Len(warnings) :
                    warnings[j].status \in {"vigente", "emitido"} } }
    \ { table[i].warning_number : i \in 1..Len(table) }

\* the row of the run for a warning_number: the first active one
JobWarning(warnings, n) ==
    LET unique == warnings_by_number(ActiveWarnings(warnings))
    IN  unique[CHOOSE i \in 1..Len(unique) : unique[i].warning_number = n]

\* the days of warning_number n whose download fails in a run: not cached
\* and refused by the server
FailingDays(n, failing, cache, year) ==
    { d \in 1..MaxDays : <<n, d>> \in failing /\ ZipFile(n, d, year) \notin cache }

\* the days of n a run downloads
DownloadedDays(evs, n) ==
    { evs[i].day : i \in EventsOf(evs, {"download"}, n) }

validate_shapefile_zip(content) ==
    LET has_shp == "shp" \in content.members
        has_shx == "shx" \in content.members
        has_dbf == "dbf" \in content.members
    IN  has_shp /\ has_shx /\ has_dbf

\* the parameters of save_warning_geometry without a default
SaveGeometryRequired ==
    {"db", "warning_id", "warning_number", "day_number", "geometry", "nivel"}

\* the arguments of the call of save_warning_geometry in geo_sync
GeoSyncArguments ==
    {"db", "warning_id", "day_number", "geometry", "shapefile_url",
     "shapefile_path"}

\* the loop of geo_sync over the days 1..day (commands.py 780-807); a call
\* that lacks a required argument raises TypeError, which ends the command
RECURSIVE GeoSyncDays(_, _, _, _, _)
GeoSyncDays(st, warning, day, contents, t) ==
    IF day = 0 THEN st
    ELSE Only({
        IF before.raised # "" THEN before
        ELSE IF ZipFile(warning.warning_number, day, warning.valid_from[1])
                    \notin before.cache
        THEN [before EXCEPT !.events = Append(@, [ev |-> "missing", day |-> day])]
        ELSE IF geometry = None
        THEN [ before EXCEPT !.events = Append(@,
                    [ev |-> "parse", day |-> day, parsed |-> FALSE]) ]
        ELSE IF ~(SaveGeometryRequired \subseteq GeoSyncArguments)
        THEN [ before EXCEPT !.raised = "TypeError",
                    !.events = Append(@,
                        [ev |-> "parse", day |-> day, parsed |-> TRUE]) ]
        ELSE [ before EXCEPT !.synced = @ + 1,
                    !.events = Append(@,
                        [ev |-> "parse", day |-> day, parsed |-> TRUE]) ] :
        before \in {GeoSyncDays(st, warning, day - 1, contents, t)},
        geometry \in {parse_shapefile_zip(TRUE, contents[day])} })

\* geo_sync: the geometry table after the command, what it did and how it
\* ended
geo_sync(postgis, warnings, table, cache, warning_number, contents, t) ==
    LET i == FirstIndex(warnings, LAMBDA w : w.warning_number = warning_number)
        start == [ table |-> table, cache |-> cache, events |-> <<>>,
                   synced |-> 0, raised |-> "" ]
    IN  IF ~postgis \/ i = 0
        THEN [table |-> table, events |-> <<>>, outcome |-> "exit 1"]
        ELSE Only({ [ table |-> done.table, events |-> done.events,
                      outcome |-> IF done.raised # "" THEN done.raised
                                  ELSE "done" ] :
                done \in { GeoSyncDays(start, warnings[i],
                            calculate_warning_days(warnings[i]), contents, t) } })

(***************************************************************************)
(* State machine: manual sync                                              *)
(***************************************************************************)
\* the archives the commands find in the cache: any of the days of #418
SyncCaches == SUBSET { ZipFile("418", d, Instant(0)[1]) : d \in 1..MaxDays }

InitSync ==
    /\ now = 0
    /\ settings = [scrape_all_departments |-> TRUE, departments |-> <<"LIMA">>]
    /\ warnings_table \in ShapeWarningTables
    /\ fetched = <<>>
    /\ scraped = <<>>
    /\ result = None
    /\ op = [name |-> "init"]
    /\ calls = 0
    /\ supports_postgis \in BOOLEAN
    /\ geometries_table = <<>>
    /\ geo_saved = <<>>
    /\ scrape_runs = <<>>
    /\ locations_table = <<>>
    /\ forecasts_table = <<>>
    /\ events = <<>>
    /\ shapefile_cache \in SyncCaches

\* one execution of the command geo sync
GeoSync ==
    /\ calls < MaxCalls
    /\ \E warning_number \in WarningNumbers,
          contents \in [1..MaxDays -> ZipContents] :
         \E after \in { geo_sync(supports_postgis, warnings_table,
                            geometries_table, shapefile_cache, warning_number,
                            contents, Instant(now)) } :
            /\ geometries_table' = after.table
            /\ events' = after.events
            /\ op' = [ name |-> "geo_sync", warning_number |-> warning_number,
                       contents |-> contents, outcome |-> after.outcome ]
    /\ calls' = calls + 1
    /\ UNCHANGED <<now, settings, warnings_table, fetched, scraped, result,
                   supports_postgis, geo_saved, scrape_runs, locations_table,
                   forecasts_table, shapefile_cache>>

\* geo list: one call of validate_shapefile_zip on an archive of the cache
GeoList ==
    /\ calls < MaxCalls
    /\ shapefile_cache # {}
    /\ \E content \in ZipContents :
            op' = [ name |-> "validate_shapefile_zip", content |-> content,
                    returned |-> BoolV(validate_shapefile_zip(content)) ]
    /\ calls' = calls + 1
    /\ UNCHANGED <<now, settings, warnings_table, fetched, scraped, result,
                   supports_postgis, geometries_table, geo_saved, job_vars>>

NextSync == GeoSync \/ GeoList

SpecSync == InitSync /\ [][NextSync]_vars

(***************************************************************************)
(* Properties: manual sync                                                 *)
(***************************************************************************)
\* a step that is one geo sync of a stored warning on a geospatial backend
GeoSyncStep ==
    /\ calls' = calls + 1
    /\ op'.name = "geo_sync"
    /\ supports_postgis
    /\ \E i \in 1..Len(warnings_table) :
            warnings_table[i].warning_number = op'.warning_number

\* the warning a geo sync works on
SyncWarning ==
    warnings_table[CHOOSE i \in 1..Len(warnings_table) :
        /\ warnings_table[i].warning_number = op'.warning_number
        /\ \A j \in 1..(i - 1) :
                warnings_table[j].warning_number # op'.warning_number]

\* the positions of the events of a kind for a day
DayEvents(evs, kinds, day) ==
    {i \in 1..Len(evs) : evs[i].ev \in kinds /\ evs[i].day = day}

\* C22: every archive is validated before it is parsed; validation fails
\* for an archive that lacks a .shp, .shx or .dbf member, and the day of
\* such an archive gets no geometry row while the days after it are still
\* attempted.
C22_ValidatedBeforeParse ==
    [][ /\ (calls' = calls + 1 /\ op'.name = "validate_shapefile_zip") =>
            (op'.returned.truth
                <=> {"shp", "shx", "dbf"} \subseteq op'.content.members)
        /\ GeoSyncStep =>
            LET w == SyncWarning
                num_days == calculate_warning_days(w)
                Cached(d) == ZipFile(w.warning_number, d, w.valid_from[1])
                                \in shapefile_cache
            IN  \A d \in 1..num_days :
                    Cached(d) =>
                        /\ \A i \in DayEvents(events', {"parse"}, d) :
                            \E j \in DayEvents(events', {"validate"}, d) : j < i
                        /\ ~validate_shapefile_zip(op'.contents[d]) =>
                            /\ DayEvents(events', {"parse"}, d) = {}
                            /\ \A i \in 1..Len(geometries_table') :
                                geometries_table'[i].day_number = d =>
                                    \E j \in 1..Len(geometries_table) :
                                        geometries_table[j] = geometries_table'[i]
                            /\ \A e \in (d + 1)..num_days :
                                DayEvents(events', {"missing", "validate",
                                                    "parse"}, e) # {} ]_vars

\* C28: a geo sync attempts the days 1..num_days of the warning in order,
\* whatever the outcome of the days before, and every day that parses ends
\* with a geometry row for each of its levels.
C28_ManualSyncAllDays ==
    [][ GeoSyncStep =>
        LET w == SyncWarning
            num_days == calculate_warning_days(w)
            Tried(d) == DayEvents(events', {"missing", "parse"}, d)
        IN  /\ \A d \in 1..num_days : Tried(d) # {}
            /\ \A d, e \in 1..num_days :
                    d < e => \A i \in Tried(d) : \A j \in Tried(e) : i < j
            /\ \A d \in 1..num_days :
                    \A i \in DayEvents(events', {"parse"}, d) :
                        events'[i].parsed =>
                            \A p \in Range(parse_shapefile_zip(TRUE,
                                            op'.contents[d]).items) :
                                \E g \in Range(geometries_table') :
                                    /\ g.warning_number = w.warning_number
                                    /\ g.day_number = d
                                    /\ g.nivel = p.nivel ]_vars

(***************************************************************************)
(* storage.crud: the views of the stored warnings                          *)
(***************************************************************************)
\* abs((a - b).total_seconds())
AbsSeconds(a, b) ==
    LET delta == timedelta(b, a)
        total == delta.days * 86400 + delta.seconds
    IN  IF total < 0 THEN -total ELSE total

\* sort_key of get_active_warnings as one number: the status priority
\* before the distance of valid_from from now (less than 10^8 seconds)
SortKey(w, t) ==
    (IF w.status = "vigente" THEN 0 ELSE 1) * 100000000
        + AbsSeconds(w.valid_from, t)

\* sorted(warnings, key=sort_key): a stable sort
RECURSIVE SortedByKey(_, _)
SortedByKey(rows, t) ==
    IF rows = <<>> THEN <<>>
    ELSE Only({ SubSeq(init, 1, k) \o <<rows[Len(rows)]>>
                    \o SubSeq(init, k + 1, Len(init)) :
            init \in {SortedByKey(SubSeq(rows, 1, Len(rows) - 1), t)},
            k \in { Cardinality({ i \in 1..Len(rows) - 1 :
                        SortKey((SortedByKey(SubSeq(rows, 1, Len(rows) - 1), t))[i], t)
                            <= SortKey(rows[Len(rows)], t) }) } })

\* get_active_warnings without the filter on valid_until
get_active_warnings_by_status(table, department, t) ==
    SortedByKey(SelectSeq(table, LAMBDA w :
        /\ w.status \in {"emitido", "vigente"}
        /\ (department # "" => w.department = Upper(department))), t)

\* crud.get_active_warnings; department "" is a call without department
get_active_warnings(table, department, t) ==
    SortedByKey(SelectSeq(table, LAMBDA w :
        /\ w.status \in {"emitido", "vigente"}
        /\ DtLE(t, w.valid_until)
        /\ (department # "" => w.department = Upper(department))), t)

\* order_by(issued_at.desc()): a stable sort of the rows
RECURSIVE OrderByIssuedDesc(_)
OrderByIssuedDesc(rows) ==
    IF rows = <<>> THEN <<>>
    ELSE Only({ SubSeq(init, 1, k) \o <<rows[Len(rows)]>>
                    \o SubSeq(init, k + 1, Len(init)) :
            init \in {OrderByIssuedDesc(SubSeq(rows, 1, Len(rows) - 1))},
            k \in { Cardinality({ i \in 1..Len(rows) - 1 :
                        DtLE(rows[Len(rows)].issued_at,
                             (OrderByIssuedDesc(SubSeq(rows, 1, Len(rows) - 1)))[i].issued_at) }) } })

\* crud.get_warnings; severity "" is a call without severity
get_warnings(table, severity, active_only, limit) ==
    LET rows == OrderByIssuedDesc(SelectSeq(table, LAMBDA w :
                    /\ (active_only => w.status \in {"emitido", "vigente"})
                    /\ (severity # "" => w.severity = severity)))
    IN  SubSeq(rows, 1, IF Len(rows) < limit THEN Len(rows) ELSE limit)

(***************************************************************************)
(* services.geojson_service                                                *)
(***************************************************************************)
\* ST_AsGeoJSON on a stored geometry, parsed by json.loads
ST_AsGeoJSON(geometry) ==
    [type |-> "MultiPolygon", coordinates |-> geometry.data]

\* datetime.isoformat(): "YYYY-MM-DDTHH:MM:SS"
isoformat(dt) ==
    [date |-> <<dt[1], dt[2], dt[3]>>, time |-> <<dt[4], dt[5], dt[6]>>]

\* GeoJSONService._create_geojson_feature
_create_geojson_feature(geometry_record, warning) ==
    [ type |-> "Feature",
      geometry |-> ST_AsGeoJSON(geometry_record.geometry),
      properties |->
        [ warning_id |-> warning.id,
          warning_number |-> warning.warning_number,
          day_number |-> geometry_record.day_number,
          nivel |-> geometry_record.nivel,
          title |-> warning.title,
          severity |-> warning.severity,
          status |-> warning.status,
          department |-> warning.department,
          valid_from |-> isoformat(warning.valid_from),
          valid_until |-> isoformat(warning.valid_until),
          issued_at |-> isoformat(warning.issued_at) ] ]

FeatureCollection(features) ==
    [type |-> "FeatureCollection", features |-> features]

\* the position of the first stored warning of a number (0 when none)
RECURSIVE FirstOfNumber(_, _, _)
FirstOfNumber(warnings, warning_number, k) ==
    IF k > Len(warnings) THEN 0
    ELSE IF warnings[k].warning_number = warning_number THEN k
    ELSE FirstOfNumber(warnings, warning_number, k + 1)

\* the position of the stored warning of an id (0 when none)
RECURSIVE FirstOfId(_, _, _)
FirstOfId(warnings, warning_id, k) ==
    IF k > Len(warnings) THEN 0
    ELSE IF warnings[k].id = warning_id THEN k
    ELSE FirstOfId(warnings, warning_id, k + 1)

\* GeoJSONService.warning_geometry_to_geojson; warning_id 0 and
\* warning_number "" are the arguments left out, day_number is None or an
\* integer.  The geometries are queried by the number of the warning found.
warning_geometry_to_geojson(postgis, warnings, table, warning_id, warning_number, day_number) ==
    IF ~postgis THEN [returned |-> None, raised |-> ""]
    ELSE Only({
        IF i = 0 THEN [returned |-> None, raised |-> ""]
        ELSE Only({
            IF got.raised # "" THEN [returned |-> None, raised |-> got.raised]
            ELSE IF got.returned.items = <<>>
            THEN [returned |-> None, raised |-> ""]
            ELSE Only({ [ returned |-> FeatureCollection(
                            [ k \in 1..Len(with_geometry) |->
                                _create_geojson_feature(with_geometry[k],
                                                        warnings[i]) ]),
                          raised |-> "" ] :
                    with_geometry \in { SelectSeq(got.returned.items,
                                            LAMBDA g : g.geometry # None) } }) :
            got \in { IF day_number # None
                      THEN get_warning_geometry_by_number_and_day(table,
                                postgis, warnings[i].warning_number,
                                day_number.value)
                      ELSE get_warning_geometries_by_number(table, postgis,
                                warnings[i].warning_number) } }) :
        i \in { IF warning_number # ""
                THEN FirstOfNumber(warnings, warning_number, 1)
                ELSE IF warning_id # 0 THEN FirstOfId(warnings, warning_id, 1)
                ELSE 0 } })

\* the loop of get_active_warnings_geojson over active_warnings[1..k]: the
\* features collected and the exception that ended the loop ("" when none)
RECURSIVE CollectFeatures(_, _, _, _, _)
CollectFeatures(postgis, warnings, table, active_warnings, k) ==
    IF k = 0 THEN [features |-> <<>>, raised |-> ""]
    ELSE Only({
        IF before.raised # "" THEN before
        ELSE Only({
            IF geojson.raised # ""
            THEN [features |-> before.features, raised |-> geojson.raised]
            ELSE IF geojson.returned = None THEN before
            ELSE [ features |-> before.features \o geojson.returned.features,
                   raised |-> "" ] :
            geojson \in { warning_geometry_to_geojson(postgis, warnings, table,
                            active_warnings[k].id, "", None) } }) :
        before \in { CollectFeatures(postgis, warnings, table, active_warnings,
                        k - 1) } })

\* GeoJSONService.get_active_warnings_geojson at time t
get_active_warnings_geojson(postgis, warnings, table, t) ==
    IF ~postgis THEN [returned |-> FeatureCollection(<<>>), raised |-> ""]
    ELSE Only({
        IF done.raised # "" THEN [returned |-> None, raised |-> done.raised]
        ELSE [returned |-> FeatureCollection(done.features), raised |-> ""] :
        done \in { Only({ CollectFeatures(postgis, warnings, table,
                            active_warnings, Len(active_warnings)) :
                    active_warnings \in {get_active_warnings(warnings, "", t)} }) } })

(***************************************************************************)
(* State machine: the views of the stored warnings                         *)
(***************************************************************************)
\* a stored warning of the views: scraped at instant 0, valid from
\* instant from to instant until
ViewWarning(id, warning_number, department, severity, status, from, until) ==
    WarningAlert(id,
        [ senamhi_id |-> 1000 + id, warning_number |-> warning_number,
          department |-> department, severity |-> severity,
          status |-> status, title |-> <<"Aviso">>, description |-> "Test",
          valid_from |-> Instant(from), valid_until |-> Instant(until),
          issued_at |-> Instant(0), scraped_at |-> Instant(0) ])

\* the tables the views find: rows as stored by a scrape at instant 0
\* (status derived at instant 0) and a row stored as vencido (tests)
ViewTables ==
    { << ViewWarning(1, "418", "LIMA", "amarillo", "vigente", 0, MaxTime),
         ViewWarning(2, "419", "LIMA", "rojo", "vigente", 0, 0),
         ViewWarning(3, "418", "CUSCO", "amarillo", "vigente", 0, MaxTime) >>,
      << ViewWarning(1, "419", "LIMA", "rojo", "emitido", 1, 1),
         ViewWarning(2, "418", "LIMA", "amarillo", "vigente", 0, 1) >>,
      << ViewWarning(1, "418", "LIMA", "amarillo", "vigente", 0, MaxTime),
         ViewWarning(2, "419", "LIMA", "rojo", "vencido", 0, 0) >> }

InitViews ==
    /\ now = 0
    /\ settings = [scrape_all_departments |-> TRUE, departments |-> <<"LIMA">>]
    /\ warnings_table \in ViewTables
    /\ fetched = <<>>
    /\ scraped = <<>>
    /\ result = None
    /\ op = [name |-> "init"]
    /\ calls = 0
    /\ supports_postgis \in BOOLEAN
    /\ geometries_table = <<>>
    /\ geo_saved = <<>>
    /\ NoJobState

\* one call of crud.get_active_warnings
GetActiveWarnings ==
    /\ calls < MaxCalls
    /\ \E department \in {"", "LIMA", "cusco"} :
            /\ op' = [name |-> "get_active_warnings", department |-> department]
            /\ result' = ListV(get_active_warnings(warnings_table, department,
                                    Instant(now)))
    /\ calls' = calls + 1
    /\ UNCHANGED <<now, settings, warnings_table, fetched, scraped,
                   supports_postgis, geometries_table, geo_saved, job_vars>>

\* one call of crud.get_warnings
GetWarnings ==
    /\ calls < MaxCalls
    /\ \E severity \in {"", "rojo"}, active_only \in BOOLEAN, limit \in {1, 50} :
            /\ op' = [ name |-> "get_warnings", severity |-> severity,
                       active_only |-> active_only, limit |-> limit ]
            /\ result' = ListV(get_warnings(warnings_table, severity,
                                    active_only, limit))
    /\ calls' = calls + 1
    /\ UNCHANGED <<now, settings, warnings_table, fetched, scraped,
                   supports_postgis, geometries_table, geo_saved, job_vars>>

\* one call of GeoJSONService.get_active_warnings_geojson
GetActiveWarningsGeojson ==
    /\ calls < MaxCalls
    /\ \E got \in { get_active_warnings_geojson(supports_postgis,
                        warnings_table, geometries_table, Instant(now)) } :
            /\ op' = [ name |-> "get_active_warnings_geojson",
                       raised |-> got.raised ]
            /\ result' = got.returned
    /\ calls' = calls + 1
    /\ UNCHANGED <<now, settings, warnings_table, fetched, scraped,
                   supports_postgis, geometries_table, geo_saved, job_vars>>

NextViews ==
    \/ Tick
    \/ GetActiveWarnings
    \/ GetWarnings
    \/ RunShapefileDownloadJob
    \/ GetActiveWarningsGeojson

SpecViews == InitViews /\ [][NextViews]_vars

(***************************************************************************)
(* Properties: the views of the stored warnings                            *)
(***************************************************************************)
\* a step that is one call of an 'active' view: get_active_warnings,
\* get_warnings(active_only=True) or the selection of the shapefile job
ActiveViewStep ==
    /\ calls' = calls + 1
    /\ \/ op'.name = "get_active_warnings"
       \/ op'.name = "get_warnings" /\ op'.active_only
       \/ op'.name = "run_shapefile_download_job"

\* the rows an 'active' view returned or selected
ViewRows ==
    IF op'.name = "run_shapefile_download_job" THEN Range(op'.selected)
    ELSE Range(result'.items)

\* C23 as stated: every row an 'active' view returns or selects has
\* valid_until >= now at the time of the query.
C23_NoExpiredInActiveViews ==
    [][ ActiveViewStep =>
            \A w \in ViewRows : DtLE(Instant(now), w.valid_until) ]_vars

\* C23: every row an 'active' view returns or selects is stored as emitido
\* or vigente, never as vencido, and every row get_active_warnings returns
\* has valid_until >= now at the time of the query.
C23_ActiveViews ==
    [][ ActiveViewStep =>
            \A w \in ViewRows :
                /\ w.status \in {"emitido", "vigente"}
                /\ op'.name = "get_active_warnings" =>
                        DtLE(Instant(now), w.valid_until) ]_vars

\* get_active_warnings has left out a row that expired after it was stored
\* as vigente and has returned a row that is still valid
C23_Witness ==
    /\ op.name = "get_active_warnings"
    /\ result.items # <<>>
    /\ \A w \in Range(result.items) : DtLE(Instant(now), w.valid_until)
    /\ \E w \in Range(warnings_table) :
            /\ w.status = "vigente"
            /\ DtLT(w.valid_until, Instant(now))
            /\ op.department \in {"", w.department}

(***************************************************************************)
(* Properties: the archive cache                                           *)
(***************************************************************************)
\* a step that is one call of download_shapefile
DownloadStep ==
    /\ calls' = calls + 1
    /\ op'.name = "download_shapefile"

\* the local file a call of download_shapefile names
DownloadPath == ZipFile(op'.warning_number, op'.day, Instant(0)[1])

\* C24: a call of download_shapefile for a file that is in the cache
\* requests nothing, leaves the cache as it is and returns the path of the
\* file; a call stores a file only if it was not in the cache, and no call
\* removes a file from it, so that a file is downloaded at most once.
C24_DownloadIdempotent ==
    [][ DownloadStep =>
            /\ DownloadPath \in shapefile_cache =>
                    /\ ~op'.requested
                    /\ shapefile_cache' = shapefile_cache
                    /\ op'.returned = DownloadPath
            /\ shapefile_cache' # shapefile_cache =>
                    /\ op'.requested
                    /\ DownloadPath \notin shapefile_cache
                    /\ shapefile_cache' = shapefile_cache \cup {DownloadPath}
            /\ shapefile_cache \subseteq shapefile_cache' ]_vars

\* a second call for a file that the first call has downloaded
C24_Witness ==
    /\ calls = 2
    /\ op.name = "download_shapefile"
    /\ ~op.requested
    /\ op.returned = ZipFile(op.warning_number, op.day, Instant(0)[1])
    /\ op.returned \in shapefile_cache

(***************************************************************************)
(* Properties: the warnings job and stored status                          *)
(***************************************************************************)
\* C25: after a run of the warnings job that did not raise, every stored
\* row whose (warning_number, department) was scraped in the run carries
\* the status and the severity of the scraped warning.
C25_StatusRefreshed ==
    [][ (WarningsJobStep /\ result' # None) =>
            \A w \in Range(scrape_warnings(RequestedDepartments(settings),
                                fetched', Instant(now))) :
                \A i \in 1..Len(warnings_table) :
                    ( /\ warnings_table[i].warning_number = w.warning_number
                      /\ warnings_table[i].department = w.department ) =>
                        /\ warnings_table'[i].status = w.status
                        /\ warnings_table'[i].severity = w.severity ]_vars

(***************************************************************************)
(* Properties: the order of a scrape pass                                  *)
(***************************************************************************)
\* the warnings of a pass in input order: the departments as requested,
\* the records of a department as in the response, first occurrences only
InputOrder == 
    CollectWarnings(RequestedDepartments(settings), fetched', Instant(now),
                    Len(RequestedDepartments(settings)))

\* the position of the warning of a key in a list of warnings
PositionOf(ws, key) == CHOOSE i \in 1..Len(ws) : KeyOf(ws[i]) = key

\* the rows a call inserted are in the order of the list handed to it
PersistedInOrder(ws) ==
    \A a, b \in (Len(warnings_table) + 1)..Len(warnings_table') :
        a < b => PositionOf(ws, KeyOf(warnings_table'[a]))
                    < PositionOf(ws, KeyOf(warnings_table'[b]))

\* C26 as stated: the warnings of a pass are handed to the reconciliation
\* and persisted in input order.
C26_HandedInInputOrder ==
    [][ (CallStep /\ op'.name = "update_warnings") =>
            /\ scraped' = InputOrder
            /\ PersistedInOrder(InputOrder) ]_vars

\* C26: the warnings of a pass are deduplicated in input order and handed
\* to the reconciliation most recently issued first, warnings issued at the
\* same instant in input order; new rows are persisted in the order handed.
C26_HandedByIssuedAt ==
    [][ (CallStep /\ op'.name = "update_warnings") =>
            \A input \in {InputOrder} :
                /\ Len(scraped') = Len(input)
                /\ Range(scraped') = Range(input)
                /\ \A i, j \in 1..Len(scraped') :
                        i < j =>
                            /\ DtLE(scraped'[j].issued_at, scraped'[i].issued_at)
                            /\ scraped'[i].issued_at = scraped'[j].issued_at =>
                                    PositionOf(input, KeyOf(scraped'[i]))
                                        < PositionOf(input, KeyOf(scraped'[j]))
                /\ PersistedInOrder(scraped') ]_vars

\* a pass over CUSCO and LIMA, in this order, has handed over and stored
\* the warning of LIMA first, because it was issued later
C26_Witness ==
    /\ op.name = "update_warnings"
    /\ RequestedDepartments(settings) = <<"CUSCO", "LIMA">>
    /\ Len(scraped) = 2
    /\ scraped[1].department = "LIMA"
    /\ scraped[2].department = "CUSCO"
    /\ DtLT(scraped[2].issued_at, scraped[1].issued_at)
    /\ Len(warnings_table) = 2
    /\ warnings_table[1].department = "LIMA"
    /\ warnings_table[2].department = "CUSCO"

(***************************************************************************)
(* Properties: the validity interval                                       *)
(***************************************************************************)
\* C27: every Warning the normalizer produces and every stored warning row
\* has valid_from <= valid_until.
C27_ValidityOrdered ==
    /\ \A w \in Range(scraped) : DtLE(w.valid_from, w.valid_until)
    /\ \A w \in Range(warnings_table) : DtLE(w.valid_from, w.valid_until)

(***************************************************************************)
(* Properties: the features of the active warnings                         *)
(***************************************************************************)
\* the geometry row a feature stands for
FeatureKey(feature) ==
    << feature.properties.warning_number, feature.properties.day_number,
       feature.properties.nivel >>

====
